---- MODULE Spec2Model ----
(***************************************************************************)
(* A model of the di_container package: ServiceRegistration and            *)
(* ServiceRegistry (registration.py), DIScope and DIContainer              *)
(* (container.py).  The container's fields are the variables; every public *)
(* operation of DIContainer is one action, and the private resolution      *)
(* methods are recursive operators that thread the container through the   *)
(* calls exactly as the Python methods mutate self.                        *)
(***************************************************************************)
EXTENDS Integers, Sequences, FiniteSets, TLC

(***************************************************************************)
(* Bounds of the model.                                                    *)
(***************************************************************************)
\* The number of objects the producers (constructors, factories) may create
\* in one behaviour; an operation that would create more is not taken.
MaxObjects == 2
\* The number of DIScope objects created in one behaviour.
MaxScopes == 2
\* The number of keys get_all_services may leave on the resolution stack;
\* a call that would leave more is not taken.
MaxStack == 2
\* The interpreter's recursion limit (sys.getrecursionlimit(), 1000 frames
\* of the interpreter), counted in nested calls of _resolve_keyed_internal
\* and scaled down: the interpreter gives up with RecursionError after
\* between 160 and 200 nested calls, depending on the frames of the caller.
\* A resolution over the classes of this module that ends nests at most 6
\* calls, so only a resolution that would never end meets the limit; the
\* number of objects it has built by then is scaled down with it.
RecursionLimit == 6

(***************************************************************************)
(* Values.                                                                 *)
(***************************************************************************)
\* Python's None as a registration key (the unkeyed registration), as an
\* absent implementation type or factory, and as an absent lifetime.
NoKey == "None"
NoType == "None"
NoFactory == "None"

\* inspect.Parameter.empty: a parameter without annotation.
Empty == "empty"

\* enums.py
SINGLETON == "singleton"
TRANSIENT == "transient"
SCOPED == "scoped"
ServiceLifetime == {SINGLETON, TRANSIENT, SCOPED}

TYPE_TO_TYPE == "type_to_type"
TYPE_TO_INSTANCE == "type_to_instance"
TYPE_TO_FACTORY == "type_to_factory"

\* exceptions.py: the kinds of outcome of a call.  "ok" is a normal return;
\* DomainError is an exception raised by a constructor or factory itself.
OK == "ok"
ServiceNotRegisteredException == "ServiceNotRegisteredException"
CircularDependencyException == "CircularDependencyException"
InvalidRegistrationException == "InvalidRegistrationException"
ScopeException == "ScopeException"
DomainError == "DomainError"
\* The interpreter's error for calls nested beyond its recursion limit.
RecursionError == "RecursionError"
\* The interpreter's errors for a dict without the key, for an attribute of
\* None, and for an index or a pop on an empty list.
KeyError == "KeyError"
AttributeError == "AttributeError"
IndexError == "IndexError"
\* The interpreter's error for a dict that changes size while it is iterated.
RuntimeError == "RuntimeError"

\* An object is its identity, its class and the arguments it was built from.
Object(id, cls, args) == [id |-> id, cls |-> cls, args |-> args]
\* Python's None as a value.
None == Object(0, "NoneType", <<>>)
\* Objects built by the caller and handed to register_instance.
Instance(n) == Object(0 - n, "Prebuilt", <<>>)

\* A constructor or factory parameter: its annotation and whether it
\* declares a default value (the default is None).
Param(t, d) == [annotation |-> t, has_default |-> d]

\* The classes of the application and the parameters of their __init__
\* (self left out).  A, B and C are the service types of the tests'
\* fixtures; the others are implementation classes.
Parameters(cls) ==
    CASE cls = "NeedsA" -> << Param("A", FALSE) >>
      [] cls = "NeedsB" -> << Param("B", FALSE) >>
      [] cls = "NeedsC" -> << Param("C", FALSE) >>
      [] cls = "NeedsBC" -> << Param("B", FALSE), Param("C", FALSE) >>
      [] cls = "OptionalC" -> << Param("C", TRUE) >>
      [] cls = "NeedsBOptionalC" -> << Param("B", FALSE), Param("C", TRUE) >>
      [] cls = "Unannotated" -> << Param(Empty, FALSE) >>
      [] cls = "make_needs_b" -> << Param("B", FALSE) >>
      [] OTHER -> << >>

\* The pair that the body of the class's __init__ or of the factory
\* resolves by a call of the container's public resolve / resolve_keyed, as
\* UserController.__init__ does (static_container_usage.py, lines 184-187);
\* (None, None) when the body makes no such call.
Reentry(cls) ==
    CASE cls = "make_locating" -> << "B", "k1" >>
      [] OTHER -> << NoType, NoKey >>

\* Whether calling the class or factory raises an error of its own.
Raises(cls) == cls \in {"Failing", "make_failing"}

\* The disposal hook of the instances of a class: "absent" (no dispose
\* attribute), "ok", or "raises".
DisposeHook(cls) ==
    CASE cls = "Disposable" -> "ok"
      [] cls = "BadDisposable" -> "raises"
      [] OTHER -> "absent"

(***************************************************************************)
(* registration.py                                                         *)
(***************************************************************************)
\* ServiceRegistration.__init__: the strategy is derived from the arguments
\* with precedence instance > factory > implementation type > self.
ServiceRegistration_factory_first(service_type, implementation_type, instance, factory, lifetime, key) ==
    LET base == [service_type |-> service_type,
                 implementation_type |-> implementation_type,
                 instance |-> instance,
                 factory |-> factory,
                 lifetime |-> lifetime,
                 key |-> key]
    IN  IF factory # NoFactory
          THEN base @@ [strategy |-> TYPE_TO_FACTORY]
        ELSE IF instance # None
          THEN base @@ [strategy |-> TYPE_TO_INSTANCE]
        ELSE IF implementation_type # NoType
          THEN base @@ [strategy |-> TYPE_TO_TYPE]
        ELSE [base EXCEPT !.implementation_type = service_type]
               @@ [strategy |-> TYPE_TO_TYPE]

ServiceRegistration(service_type, implementation_type, instance, factory, lifetime, key) ==
    LET base == [service_type |-> service_type,
                 implementation_type |-> implementation_type,
                 instance |-> instance,
                 factory |-> factory,
                 lifetime |-> lifetime,
                 key |-> key]
    IN  IF instance # None
          THEN base @@ [strategy |-> TYPE_TO_INSTANCE]
        ELSE IF factory # NoFactory
          THEN base @@ [strategy |-> TYPE_TO_FACTORY]
        ELSE IF implementation_type # NoType
          THEN base @@ [strategy |-> TYPE_TO_TYPE]
        ELSE [base EXCEPT !.implementation_type = service_type]
               @@ [strategy |-> TYPE_TO_TYPE]

\* A Python dict is a sequence of entries in insertion order; assigning an
\* existing key keeps its position.
DictHas(d, k) == \E i \in 1..Len(d) : d[i].key = k
DictIndex(d, k) == CHOOSE i \in 1..Len(d) : d[i].key = k
DictGet(d, k) == d[DictIndex(d, k)].value
DictSet_appending(d, k, v) == Append(d, [key |-> k, value |-> v])
DictSet(d, k, v) ==
    IF DictHas(d, k)
      THEN [d EXCEPT ![DictIndex(d, k)] = [key |-> k, value |-> v]]
      ELSE Append(d, [key |-> k, value |-> v])
\* ServiceRegistry.register
registry_register(registrations, registration) ==
    DictSet(registrations,
            << registration.service_type, registration.key >>,
            registration)

\* ServiceRegistry.is_registered
registry_is_registered(registrations, service_type, key) ==
    DictHas(registrations, << service_type, key >>)

\* ServiceRegistry.get_registrations_for_type
get_registrations_for_type(registrations, service_type) ==
    LET OfType(e) == e.key[1] = service_type
        matching == SelectSeq(registrations, OfType)
    IN  [i \in 1..Len(matching) |-> matching[i].value]

(***************************************************************************)
(* container.py: the private methods.  A container value c holds the       *)
(* fields of one DIContainer together with the DIScope objects it has      *)
(* handed out (scopes), the allocator of object identities (next_id) and   *)
(* the identities whose dispose() hook has run (disposed).  Every operator *)
(* returns the container as the call leaves it, and the outcome.           *)
(***************************************************************************)
Return(c, value) ==
    [c |-> c, kind |-> OK, value |-> value, service_type |-> NoType,
     dependency_chain |-> << >>]
Raise(c, kind, service_type, chain) ==
    [c |-> c, kind |-> kind, value |-> None, service_type |-> service_type,
     dependency_chain |-> chain]

InSeq(x, seq) == \E i \in 1..Len(seq) : seq[i] = x

\* A call of _resolve_keyed_internal is entered and left: frames is the
\* number of its calls that are active (nested in each other), deepest the
\* largest number that have been active at once in the current operation.
Entered(c) ==
    [c EXCEPT !.frames = @ + 1,
              !.deepest = IF c.frames + 1 > @ THEN c.frames + 1 ELSE @]
Left(r) == [r EXCEPT !.c.frames = @ - 1]

\* A call of _resolve_keyed_internal that was entered with the stack and
\* has ended with r: unbalanced counts, in the current operation, the calls
\* that returned a value or raised another error than
\* CircularDependencyException and left a stack that differs from the one
\* they were entered with.
Exited(stack, r) ==
    IF r.kind # CircularDependencyException /\ r.c.resolution_stack # stack
      THEN [r EXCEPT !.c.unbalanced = @ + 1]
      ELSE r

RECURSIVE resolve_keyed(_, _, _)
RECURSIVE resolve_keyed_internal(_, _, _)

\* The producer is called: runs lists, for the current operation, the
\* pairs with Singleton lifetime whose producer has been called, in the
\* order of the calls; producing is the pair of the registration that
\* _create_new_instance is producing, (None, None) unless its lifetime is
\* Singleton.
Run(c) ==
    IF c.producing = << NoType, NoKey >> THEN c
    ELSE [c EXCEPT !.runs = Append(@, c.producing)]

\* implementation_type(*dependencies) / factory(*dependencies): the producer
\* runs and yields a new object, or raises an error of its own; failures
\* counts the runs that raised in the current operation.
Construct_retried(c, cls, dependencies) ==
    IF Raises(cls)
      THEN Raise([Run(c) EXCEPT !.failures = @ + 2], DomainError, NoType,
                 << >>)
      ELSE Return([Run(c) EXCEPT !.next_id = @ + 1],
                  Object(c.next_id, cls, dependencies))

\* A body that calls the container's resolve_keyed first: the call's
\* exception leaves the body, otherwise the body goes on.
Construct(c, cls, dependencies) ==
    LET Made(r) ==
            IF r.kind # OK THEN r
            ELSE Return([r.c EXCEPT !.next_id = @ + 1],
                        Object(r.c.next_id, cls, dependencies))
    IN  IF Raises(cls)
          THEN Raise([Run(c) EXCEPT !.failures = @ + 1], DomainError, NoType,
                     << >>)
        ELSE IF Reentry(cls)[1] # NoType
          THEN Made(resolve_keyed(Run(c), Reentry(cls)[1], Reentry(cls)[2]))
        ELSE Return([Run(c) EXCEPT !.next_id = @ + 1],
                    Object(c.next_id, cls, dependencies))

RECURSIVE create_instance(_, _)
RECURSIVE create_new_instance(_, _)
RECURSIVE create_type_instance(_, _)
RECURSIVE type_dependencies(_, _, _, _)
RECURSIVE invoke_factory(_, _)
RECURSIVE factory_dependencies(_, _, _, _)

\* DIContainer._resolve_internal
resolve_internal(c, service_type) ==
    resolve_keyed_internal(c, service_type, NoKey)

\* DIContainer._resolve_keyed_internal
resolve_keyed_internal(c, service_type, key) ==
    LET service_key == << service_type, key >>
        Circular(stack, entered) ==
            Raise([entered EXCEPT !.resolution_stack = stack],
                  CircularDependencyException, NoType, stack)
        Try(pushed) ==
            IF ~registry_is_registered(pushed.registrations, service_type, key)
              THEN Raise(pushed, ServiceNotRegisteredException,
                         service_type, << >>)
              ELSE create_instance(
                     pushed, DictGet(pushed.registrations, service_key))
        \* finally: pop the key if it is still on top
        Popped(stack) ==
            IF stack # << >> /\ stack[Len(stack)] = service_key
              THEN SubSeq(stack, 1, Len(stack) - 1)
              ELSE stack
        Finally(r) == [r EXCEPT !.c.resolution_stack = Popped(@)]
        Body(entered) ==
            IF InSeq(service_key, entered.resolution_stack)
              THEN Circular(Append(entered.resolution_stack, service_key),
                            entered)
              ELSE Finally(Try([entered EXCEPT
                                  !.resolution_stack = Append(@, service_key)]))
    IN  IF c.frames >= RecursionLimit
          THEN Raise(c, RecursionError, NoType, << >>)
          ELSE Exited(c.resolution_stack, Left(Body(Entered(c))))

\* DIScope.get_scoped_instance
get_scoped_instance(scoped_instances, service_type, key) ==
    IF DictHas(scoped_instances, << service_type, key >>)
      THEN DictGet(scoped_instances, << service_type, key >>)
      ELSE None

\* DIScope.set_scoped_instance
set_scoped_instance(scoped_instances, service_type, key, instance) ==
    DictSet(scoped_instances, << service_type, key >>, instance)

\* DIContainer._create_instance, the Singleton branch: the cached instance,
\* or a new one that is cached.
singleton_lifetime_uncached(c, registration) ==
    LET singleton_key == << registration.service_type, registration.key >>
        Store(r) == IF r.kind # OK THEN r
                    ELSE [r EXCEPT !.c.singleton_instances =
                                     DictSet(@, singleton_key, r.value)]
    IN  Store(create_new_instance(c, registration))

singleton_lifetime(c, registration) ==
    LET singleton_key == << registration.service_type, registration.key >>
        Store(r) == IF r.kind # OK THEN r
                    ELSE [r EXCEPT !.c.singleton_instances =
                                     DictSet(@, singleton_key, r.value)]
    IN  IF DictHas(c.singleton_instances, singleton_key)
          THEN Return(c, DictGet(c.singleton_instances, singleton_key))
          ELSE Store(create_new_instance(c, registration))

\* DIContainer._create_instance, the Scoped branch: it needs a current
\* scope, and yields the instance the scope holds or a new one that the
\* scope then holds.
scoped_lifetime_unstored(c, registration) ==
    IF c.current_scope = 0
      THEN Raise(c, ScopeException, NoType, << >>)
      ELSE
        LET Found(instance) ==
                IF instance # None THEN Return(c, instance)
                ELSE create_new_instance(c, registration)
        IN  Found(get_scoped_instance(
                    c.scopes[c.current_scope],
                    registration.service_type, registration.key))

scoped_lifetime(c, registration) ==
    IF c.current_scope = 0
      THEN Raise(c, ScopeException, NoType, << >>)
      ELSE
        LET Store(r) ==
                IF r.kind # OK THEN r
                ELSE [r EXCEPT !.c.scopes[r.c.current_scope] =
                        set_scoped_instance(
                          @, registration.service_type,
                          registration.key, r.value)]
            Found(instance) ==
                IF instance # None THEN Return(c, instance)
                ELSE Store(create_new_instance(c, registration))
        IN  Found(get_scoped_instance(
                    c.scopes[c.current_scope],
                    registration.service_type, registration.key))

\* DIContainer._create_instance
create_instance_all_scoped(c, registration) ==
    IF registration.lifetime = SINGLETON
      THEN singleton_lifetime(c, registration)
      ELSE scoped_lifetime(c, registration)

create_instance(c, registration) ==
    IF registration.lifetime = SINGLETON
      THEN singleton_lifetime(c, registration)
    ELSE IF registration.lifetime = SCOPED
      THEN scoped_lifetime(c, registration)
    ELSE create_new_instance(c, registration)

\* The registration that is being produced, while its producer and the
\* resolutions of its parameters run, and the one that was being produced
\* before, when they have ended.
Producing(c, registration) ==
    [c EXCEPT !.producing =
       IF registration.lifetime = SINGLETON
         THEN << registration.service_type, registration.key >>
         ELSE << NoType, NoKey >>]
Produced(c, r) == [r EXCEPT !.c.producing = c.producing]

\* DIContainer._create_new_instance
create_new_instance(c, registration) ==
    IF registration.strategy = TYPE_TO_INSTANCE
      THEN Return(c, registration.instance)
    ELSE IF registration.strategy = TYPE_TO_FACTORY
      THEN IF registration.factory = NoFactory
             THEN Raise(c, InvalidRegistrationException, NoType, << >>)
             ELSE Produced(c, invoke_factory(Producing(c, registration),
                                             registration.factory))
    ELSE IF registration.strategy = TYPE_TO_TYPE
      THEN IF registration.implementation_type = NoType
             THEN Raise(c, InvalidRegistrationException, NoType, << >>)
             ELSE Produced(c, create_type_instance(
                                Producing(c, registration),
                                registration.implementation_type))
    ELSE Raise(c, InvalidRegistrationException, NoType, << >>)

\* The loop of _create_type_instance over the parameters, from the i-th on,
\* with the dependencies resolved so far.  A failure ends the loop.
type_dependencies_default_first(c, parameters, i, dependencies) ==
    IF i > Len(parameters)
      THEN [c |-> c, kind |-> OK, dependencies |-> dependencies]
      ELSE
        LET param_type == parameters[i].annotation
            Got(r) ==
                IF r.kind # OK THEN r
                ELSE type_dependencies(r.c, parameters, i + 1,
                                       Append(dependencies, r.value))
        IN  IF param_type = Empty
              THEN Raise(c, InvalidRegistrationException, NoType, << >>)
            ELSE IF parameters[i].has_default
              THEN type_dependencies(c, parameters, i + 1,
                                     Append(dependencies, None))
            ELSE Got(resolve_internal(c, param_type))

type_dependencies(c, parameters, i, dependencies) ==
    IF i > Len(parameters)
      THEN [c |-> c, kind |-> OK, dependencies |-> dependencies]
      ELSE
        LET param_type == parameters[i].annotation
            Got(r) ==
                IF r.kind # OK THEN r
                ELSE type_dependencies(r.c, parameters, i + 1,
                                       Append(dependencies, r.value))
        IN  IF param_type = Empty
              THEN Raise(c, InvalidRegistrationException, NoType, << >>)
            ELSE IF parameters[i].has_default
                    /\ ~registry_is_registered(c.registrations, param_type, NoKey)
              THEN type_dependencies(c, parameters, i + 1,
                                     Append(dependencies, None))
            ELSE Got(resolve_internal(c, param_type))

\* DIContainer._create_type_instance
create_type_instance(c, implementation_type) ==
    LET Call(d) == IF d.kind # OK THEN d
                   ELSE Construct(d.c, implementation_type, d.dependencies)
    IN  IF Parameters(implementation_type) = << >>
          THEN Construct(c, implementation_type, << >>)
          ELSE Call(type_dependencies(
                      c, Parameters(implementation_type), 1, << >>))

\* The loop of _invoke_factory over the parameters.
factory_dependencies(c, parameters, i, dependencies) ==
    IF i > Len(parameters)
      THEN [c |-> c, kind |-> OK, dependencies |-> dependencies]
      ELSE
        LET param_type == parameters[i].annotation
            Got(r) ==
                IF r.kind # OK THEN r
                ELSE factory_dependencies(r.c, parameters, i + 1,
                                          Append(dependencies, r.value))
        IN  IF param_type = Empty
              THEN Raise(c, InvalidRegistrationException, NoType, << >>)
            ELSE Got(resolve_internal(c, param_type))

\* DIContainer._invoke_factory
invoke_factory(c, factory) ==
    LET Call(d) == IF d.kind # OK THEN d
                   ELSE Construct(d.c, factory, d.dependencies)
    IN  IF Parameters(factory) = << >>
          THEN Construct(c, factory, << >>)
          ELSE Call(factory_dependencies(c, Parameters(factory), 1, << >>))

(***************************************************************************)
(* container.py: DIScope.dispose and the public methods of DIContainer,    *)
(* as functions of the container.                                          *)
(***************************************************************************)
\* The loop of DIScope.dispose over the held instances, in insertion
\* order: an instance with a dispose attribute has it called, and a hook
\* that raises ends the loop.
RECURSIVE dispose_instances(_, _, _)
dispose_instances(c, scoped_instances, i) ==
    IF i > Len(scoped_instances)
      THEN [c |-> c, kind |-> OK]
      ELSE
        LET instance == scoped_instances[i].value
            Hook(hook) ==
                IF hook = "absent"
                  THEN dispose_instances(c, scoped_instances, i + 1)
                ELSE IF hook = "raises"
                  THEN [c |-> c, kind |-> DomainError]
                ELSE dispose_instances(
                       [c EXCEPT !.disposed = @ \cup {instance.id}],
                       scoped_instances, i + 1)
        IN  Hook(DisposeHook(instance.cls))

\* DIScope.dispose: the hooks, then the map is cleared.
dispose(c, scope) ==
    LET Emptied(r) == IF r.kind # OK THEN r
                     ELSE [r EXCEPT !.c.scopes[scope] = << >>]
    IN  Emptied(dispose_instances(c, c.scopes[scope], 1))

\* DIContainer.resolve
resolve_uncleared(c, service_type) ==
    resolve_internal(c, service_type)

resolve(c, service_type) ==
    [resolve_internal(c, service_type) EXCEPT !.c.resolution_stack = << >>]

\* DIContainer.resolve_keyed
resolve_keyed(c, service_type, key) ==
    [resolve_keyed_internal(c, service_type, key)
       EXCEPT !.c.resolution_stack = << >>]

\* DIContainer.try_resolve
try_resolve_any_error(c, service_type) ==
    LET Finally(r) == [r EXCEPT !.c.resolution_stack = << >>]
        Except(r) == IF r.kind # OK THEN Return(r.c, None) ELSE r
    IN  Finally(Except(resolve_internal(c, service_type)))

try_resolve(c, service_type) ==
    LET Finally(r) == [r EXCEPT !.c.resolution_stack = << >>]
        Except(r) == IF r.kind = ServiceNotRegisteredException
                       THEN Return(r.c, None)
                       ELSE r
    IN  Finally(Except(resolve_internal(c, service_type)))

\* DIContainer.try_resolve_keyed
try_resolve_keyed(c, service_type, key) ==
    LET Finally(r) == [r EXCEPT !.c.resolution_stack = << >>]
        Except(r) == IF r.kind = ServiceNotRegisteredException
                       THEN Return(r.c, None)
                       ELSE r
    IN  Finally(Except(resolve_keyed_internal(c, service_type, key)))

\* The loop of get_all_services over the registrations found when it was
\* called: a registration whose construction raises is skipped.
RECURSIVE collect_services(_, _, _, _)
collect_services_until_failure(c, found, i, services) ==
    IF i > Len(found)
      THEN [c |-> c, kind |-> OK, services |-> services]
      ELSE LET Collect(r) ==
                   IF r.kind = OK
                     THEN collect_services(r.c, found, i + 1,
                                           Append(services, r.value))
                     ELSE [c |-> r.c, kind |-> OK, services |-> services]
           IN  Collect(create_instance(c, found[i]))

collect_services(c, found, i, services) ==
    IF i > Len(found)
      THEN [c |-> c, kind |-> OK, services |-> services]
      ELSE LET Collect(r) ==
                   IF r.kind = OK
                     THEN collect_services(r.c, found, i + 1,
                                           Append(services, r.value))
                     ELSE collect_services(r.c, found, i + 1, services)
           IN  Collect(create_instance(c, found[i]))

\* DIContainer.get_all_services
get_all_services(c, service_type) ==
    collect_services(
      c, get_registrations_for_type(c.registrations, service_type), 1, << >>)

\* DIContainer.create_scope: a new, empty DIScope; its identity is returned.
create_scope(c) ==
    [c |-> [c EXCEPT !.scopes = Append(@, << >>)],
     kind |-> OK, scope |-> Len(c.scopes) + 1]

\* DIContainer.begin_scope; scope 0 is the argument None.
begin_scope_disposing(c, scope) ==
    LET Begin(made) == [made EXCEPT !.c.current_scope = made.scope]
        Replace(emptied) ==
            Begin(IF scope = 0 THEN create_scope(emptied)
                  ELSE [c |-> emptied, kind |-> OK, scope |-> scope])
    IN  Replace(IF c.current_scope # 0
                  THEN [c EXCEPT !.scopes[c.current_scope] = << >>]
                  ELSE c)

begin_scope(c, scope) ==
    LET Begin(made) == [made EXCEPT !.c.current_scope = made.scope]
    IN  Begin(IF scope = 0 THEN create_scope(c)
              ELSE [c |-> c, kind |-> OK, scope |-> scope])

\* DIContainer.end_scope
end_scope(c) ==
    LET Leave(r) == IF r.kind # OK THEN r
                    ELSE [r EXCEPT !.c.current_scope = 0]
    IN  IF c.current_scope # 0
          THEN Leave(dispose(c, c.current_scope))
          ELSE [c |-> c, kind |-> OK]

\* DIContainer.is_registered
is_registered(c, service_type, key) ==
    registry_is_registered(c.registrations, service_type, key)

\* DIContainer.clear
clear(c) ==
    LET Leave(r) == IF r.kind # OK THEN r
                    ELSE [r EXCEPT !.c.current_scope = 0]
        Rest(emptied) ==
            IF emptied.current_scope # 0
              THEN Leave(dispose(emptied, emptied.current_scope))
              ELSE [c |-> emptied, kind |-> OK]
    IN  Rest([c EXCEPT !.registrations = << >>,
                       !.singleton_instances = << >>])

\* A lifetime argument the caller has left out, and the value the parameter
\* then has: `lifetime: ServiceLifetime = ServiceLifetime.TRANSIENT`.
Omitted == "omitted"
Default_singleton(lifetime) ==
    IF lifetime = Omitted THEN SINGLETON ELSE lifetime
Default(lifetime) ==
    IF lifetime = Omitted THEN TRANSIENT ELSE lifetime

\* The six register* methods: each builds a ServiceRegistration and writes
\* it to the registry.
register(c, service_type, implementation_type, lifetime) ==
    [c EXCEPT !.registrations = registry_register(@,
        ServiceRegistration(service_type, implementation_type, None,
                            NoFactory, Default(lifetime), NoKey))]

register_keyed(c, service_type, key, implementation_type, lifetime) ==
    [c EXCEPT !.registrations = registry_register(@,
        ServiceRegistration(service_type, implementation_type, None,
                            NoFactory, Default(lifetime), key))]

register_instance_caching(c, service_type, instance) ==
    [c EXCEPT !.registrations = registry_register(@,
                  ServiceRegistration(service_type, NoType, instance,
                                      NoFactory, SINGLETON, NoKey)),
              !.singleton_instances =
                  DictSet(@, << service_type, NoKey >>, instance)]

register_instance(c, service_type, instance) ==
    [c EXCEPT !.registrations = registry_register(@,
        ServiceRegistration(service_type, NoType, instance,
                            NoFactory, SINGLETON, NoKey))]

register_keyed_instance(c, service_type, key, instance) ==
    [c EXCEPT !.registrations = registry_register(@,
        ServiceRegistration(service_type, NoType, instance,
                            NoFactory, SINGLETON, key))]

register_factory(c, service_type, factory, lifetime) ==
    [c EXCEPT !.registrations = registry_register(@,
        ServiceRegistration(service_type, NoType, None,
                            factory, Default(lifetime), NoKey))]

register_keyed_factory(c, service_type, key, factory, lifetime) ==
    [c EXCEPT !.registrations = registry_register(@,
        ServiceRegistration(service_type, NoType, None,
                            factory, Default(lifetime), key))]

(***************************************************************************)
(* The state: the fields of one DIContainer (container.py, __init__), the  *)
(* DIScope objects created so far, and what the caller has seen.           *)
(***************************************************************************)
VARIABLES
    registrations,         \* ServiceRegistry._registrations
    singleton_instances,   \* DIContainer._singleton_instances
    current_scope,         \* DIContainer._current_scope: a scope, or 0 (None)
    resolution_stack,      \* DIContainer._resolution_stack
    scopes,                \* scopes[i]: DIScope._scoped_instances of scope i
    next_id,               \* the identity the next constructed object gets
    disposed,              \* the objects whose dispose() hook has been called
    last,                  \* the last call of the caller and its outcome
    singleton_returned,    \* per pair, the instances that resolve calls returned
                           \* for a Singleton registration since the last clear()
    singleton_productions, \* per pair, since the last clear(): how often a
                           \* producer's object was stored in the singleton
                           \* cache, and how often the producer was called
    scoped_returned,       \* per scope and pair, the instances that resolve calls
                           \* returned for a Scoped registration since that scope
                           \* was last disposed
    ended_instances,       \* the instances a scope held when it was disposed
    threads,               \* per thread, the resolve call it is executing on
                           \* the container: its Python frames and its outcome
    provider,              \* the class attributes of ServiceProvider, and the
                           \* configure calls that are executing
    requests               \* per HTTP request, request.state and how far the
                           \* request has got

vars == << registrations, singleton_instances, current_scope, resolution_stack,
           scopes, next_id, disposed, last, singleton_returned,
           singleton_productions, scoped_returned, ended_instances,
           threads, provider, requests >>

\* The service types and keys of the calls.
ServiceTypes == {"A", "B", "C"}
Keys == {"k1", "k2"}
Pairs == ServiceTypes \X ({NoKey} \cup Keys)

\* The container the operators work on, built from the variables.
Container ==
    [registrations |-> registrations,
     singleton_instances |-> singleton_instances,
     current_scope |-> current_scope,
     resolution_stack |-> resolution_stack,
     scopes |-> scopes,
     next_id |-> next_id,
     disposed |-> disposed,
     frames |-> 0,
     deepest |-> 0,
     failures |-> 0,
     unbalanced |-> 0,
     producing |-> << NoType, NoKey >>,
     runs |-> << >>]

\* The variables take the fields of the container a call has left.
Becomes(c) ==
    /\ registrations' = c.registrations
    /\ singleton_instances' = c.singleton_instances
    /\ current_scope' = c.current_scope
    /\ resolution_stack' = c.resolution_stack
    /\ scopes' = c.scopes
    /\ next_id' = c.next_id
    /\ disposed' = c.disposed

\* The lifetime of the registration of a pair, "None" when it has none.
LifetimeOf(c, pair) ==
    IF DictHas(c.registrations, pair)
      THEN DictGet(c.registrations, pair).lifetime
      ELSE "None"

\* What the caller sees of a call: the operation, its arguments, the kind
\* of outcome (OK or the exception), the value returned, the service_type
\* and dependency_chain the exception carries, the lifetime the pair was
\* registered with when the call was made, the outcome resolve /
\* resolve_keyed has on the same container, the scope that was current
\* when the call was made, and how many objects the call constructed.
\* The arguments of a register* call that describe the producer; an
\* argument the method does not take has the value the method passes on.
Arguments(implementation_type, instance, factory, lifetime) ==
    [implementation_type |-> implementation_type, instance |-> instance,
     factory |-> factory, lifetime |-> lifetime]
NoArguments == Arguments(NoType, None, NoFactory, "None")

\* A registration whose construction by get_all_services cannot fail: its
\* instance is cached or prebuilt, or its producer takes no parameters and
\* does not raise (and a scope is current when the lifetime is Scoped).
Sure(c, registration) ==
    \/ /\ registration.lifetime = SINGLETON
       /\ DictHas(c.singleton_instances,
                  << registration.service_type, registration.key >>)
    \/ /\ registration.lifetime = SCOPED => c.current_scope # 0
       /\ \/ registration.strategy = TYPE_TO_INSTANCE
          \/ /\ registration.strategy = TYPE_TO_TYPE
             /\ Parameters(registration.implementation_type) = << >>
             /\ ~Raises(registration.implementation_type)
          \/ /\ registration.strategy = TYPE_TO_FACTORY
             /\ Parameters(registration.factory) = << >>
             /\ ~Raises(registration.factory)

Outcome(r) ==
    [kind |-> r.kind, value |-> r.value, error_type |-> r.service_type,
     dependency_chain |-> r.dependency_chain]
Seen(op, pair, r, lifetime, reference, scope) ==
    [op |-> op, created |-> r.c.next_id - next_id,
     service_type |-> pair[1], key |-> pair[2], kind |-> r.kind,
     value |-> r.value, error_type |-> r.service_type,
     dependency_chain |-> r.dependency_chain, lifetime |-> lifetime,
     reference |-> Outcome(reference), scope |-> scope, services |-> << >>,
     cleared |-> {}, written |-> NoArguments, attempts |-> 0, sure |-> 0,
     held |-> {},
     changed |-> [r.c EXCEPT !.deepest = 0, !.failures = 0,
                             !.unbalanced = 0, !.runs = << >>] # Container,
     steps |-> r.c.deepest, failures |-> r.c.failures,
     unbalanced |-> r.c.unbalanced, runs |-> r.c.runs]
Quiet(op) ==
    [op |-> op, created |-> 0, service_type |-> NoType, key |-> NoKey, kind |-> OK,
     value |-> None, error_type |-> NoType, dependency_chain |-> << >>,
     lifetime |-> "None", reference |-> Outcome(Return(<< >>, None)),
     scope |-> 0, services |-> << >>, cleared |-> {},
     written |-> NoArguments, attempts |-> 0, sure |-> 0,
     held |-> {}, changed |-> FALSE, steps |-> 0, failures |-> 0,
     unbalanced |-> 0, runs |-> << >>]

\* The instances a scope holds.
HeldBy(c, scope) ==
    IF scope = 0 THEN {}
    ELSE {c.scopes[scope][i].value.id : i \in 1..Len(c.scopes[scope])}

\* The instances a scope holds whose class has a dispose() that returns.
Disposables(c, scope) ==
    IF scope = 0 THEN {}
    ELSE {c.scopes[scope][i].value.id :
            i \in {j \in 1..Len(c.scopes[scope]) :
                     DisposeHook(c.scopes[scope][j].value.cls) = "ok"}}

\* No producer has run for a pair.
NoProductions == [stored |-> 0, runs |-> 0]

\* The number of entries of a sequence that are x.
RECURSIVE Count(_, _)
Count(x, seq) ==
    IF seq = << >> THEN 0
    ELSE (IF Head(seq) = x THEN 1 ELSE 0) + Count(x, Tail(seq))

\* A call that constructs: the singleton cache entries that now hold an
\* object constructed during the call are counted, and so are the runs of
\* the producers of Singleton pairs, as none, one, or two and more.
ProductionsAfter(before, after) ==
    [p \in Pairs |->
        [stored |->
           IF /\ DictHas(after.singleton_instances, p)
              /\ DictGet(after.singleton_instances, p).id >= before.next_id
             THEN singleton_productions[p].stored + 1
             ELSE singleton_productions[p].stored,
         runs |->
           IF singleton_productions[p].runs + Count(p, after.runs) >= 2
             THEN 2
             ELSE singleton_productions[p].runs + Count(p, after.runs)]]

\* The threads that call the container concurrently.
Threads == {1, 2}

\* The DIContainer a thread's call works on: the one the container
\* variables describe (live), or one that ServiceProvider has let go of
\* while the call was executing; the fields of that one are kept with the
\* thread.  One of the two threads executes the statement that lets the
\* container go, so at most one thread holds it.
Live ==
    [live |-> TRUE, registrations |-> << >>, singleton_instances |-> << >>,
     current_scope |-> 0, resolution_stack |-> << >>]

\* A thread that is not executing a call.  With a call: the method, its
\* arguments service_key and scope, the frames of the container's method,
\* the outcome and the objects constructed; scope becomes the DIScope that
\* create_scope / begin_scope returned or that held the Scoped instance
\* the call returned, ended the scopes that end_scope disposed or took out
\* of _current_scope, got what get_container returned.
IdleThread ==
    [pc |-> "idle", service_key |-> << NoType, NoKey >>, frames |-> << >>,
     outcome |-> Outcome(Return(<< >>, None)), created |-> {},
     method |-> "None", container |-> Live, scope |-> 0, ended |-> {},
     got |-> "none"]

\* A thread that is not inside a method of ServiceProvider.  Inside one:
\* pc is its place in the method, func the configuration function of a
\* configure call, position the number of statements of the function that
\* have been executed.
NotCalling == [pc |-> "idle", func |-> "None", position |-> 0]

\* ServiceProvider's class attributes as the class statement leaves them
\* (service_provider.py, lines 26-29): _container is whether it refers to a
\* container (the live one), _lock the thread that holds the lock, or 0.
\* With them: how many configure calls have set _is_configured since the
\* last reset call was entered, and for each thread its place in the
\* ServiceProvider method it is executing.
UnconfiguredProvider ==
    [_container |-> FALSE, _is_configured |-> FALSE, _lock |-> 0,
     succeeded |-> 0,
     calls |-> [t \in Threads |-> NotCalling]]

\* The HTTP requests in flight, and a request that has not arrived.
Requests == {1, 2}
\* _di_scope is the attribute of request.state (0: absent).  With it: the
\* scope the request's dependency began, the scopes that held the Scoped
\* instances its dependencies returned, the scopes its end_scope calls
\* disposed or took out of _current_scope, and pc, the ServiceProvider call
\* that its dependency or its cleanup_send is waiting for.
NoRequest ==
    [phase |-> "none", _di_scope |-> 0, began |-> 0, served |-> {},
     ended |-> {}, pc |-> "none", service_key |-> << NoType, NoKey >>]

\* A call made directly on the container by its only caller.
Alone == UNCHANGED << threads, provider, requests >>

Init ==
    /\ threads = [t \in Threads |-> IdleThread]
    /\ provider = UnconfiguredProvider
    /\ requests = [r \in Requests |-> NoRequest]
    /\ registrations = << >>
    /\ singleton_instances = << >>
    /\ current_scope = 0
    /\ resolution_stack = << >>
    /\ scopes = << >>
    /\ next_id = 1
    /\ disposed = {}
    /\ last = Quiet("init")
    /\ singleton_returned = [p \in Pairs |-> {}]
    /\ singleton_productions = [p \in Pairs |-> NoProductions]
    /\ scoped_returned = << >>
    /\ ended_instances = {}

(***************************************************************************)
(* The actions: one per public method of DIContainer.                      *)
(***************************************************************************)
Registers(c, op, pair, written) ==
    /\ Alone
    /\ Becomes(c)
    /\ last' = [Quiet(op) EXCEPT !.service_type = pair[1], !.key = pair[2],
                                 !.written = written]
    /\ UNCHANGED << singleton_returned, singleton_productions,
                    scoped_returned, ended_instances >>

Register(service_type, implementation_type, lifetime) ==
    Registers(register(Container, service_type, implementation_type, lifetime),
              "register", << service_type, NoKey >>,
              Arguments(implementation_type, None, NoFactory, lifetime))

RegisterKeyed(service_type, key, implementation_type, lifetime) ==
    Registers(register_keyed(Container, service_type, key,
                             implementation_type, lifetime),
              "register_keyed", << service_type, key >>,
              Arguments(implementation_type, None, NoFactory, lifetime))

RegisterInstance(service_type, instance) ==
    Registers(register_instance(Container, service_type, instance),
              "register_instance", << service_type, NoKey >>,
              Arguments(NoType, instance, NoFactory, SINGLETON))

RegisterKeyedInstance(service_type, key, instance) ==
    Registers(register_keyed_instance(Container, service_type, key, instance),
              "register_keyed_instance", << service_type, key >>,
              Arguments(NoType, instance, NoFactory, SINGLETON))

RegisterFactory(service_type, factory, lifetime) ==
    Registers(register_factory(Container, service_type, factory, lifetime),
              "register_factory", << service_type, NoKey >>,
              Arguments(NoType, None, factory, lifetime))

RegisterKeyedFactory(service_type, key, factory, lifetime) ==
    Registers(register_keyed_factory(Container, service_type, key, factory,
                                     lifetime),
              "register_keyed_factory", << service_type, key >>,
              Arguments(NoType, None, factory, lifetime))

\* The caller gets the outcome r of a resolve call for a pair; reference
\* is the outcome of resolve / resolve_keyed on the same container.  A call
\* that the interpreter ends with RecursionError is taken whatever it has
\* built by then.
Resolves(op, pair, r, reference) ==
    LET lifetime == LifetimeOf(Container, pair)
    IN  /\ \/ r.c.next_id <= MaxObjects + 1
           \/ r.kind = RecursionError /\ next_id <= MaxObjects + 1
        /\ Alone
        /\ Becomes(r.c)
        /\ last' = Seen(op, pair, r, lifetime, reference, current_scope)
        /\ singleton_returned' =
             IF r.kind = OK /\ lifetime = SINGLETON
               THEN [singleton_returned EXCEPT ![pair] = @ \cup {r.value.id}]
               ELSE singleton_returned
        /\ singleton_productions' = ProductionsAfter(Container, r.c)
        /\ scoped_returned' =
             IF r.kind = OK /\ lifetime = SCOPED
               THEN [scoped_returned EXCEPT ![current_scope][pair] =
                                              @ \cup {r.value.id}]
               ELSE scoped_returned
        /\ UNCHANGED ended_instances

Resolve(service_type) ==
    Resolves("resolve", << service_type, NoKey >>,
             resolve(Container, service_type),
             resolve(Container, service_type))

ResolveKeyed(service_type, key) ==
    Resolves("resolve_keyed", << service_type, key >>,
             resolve_keyed(Container, service_type, key),
             resolve_keyed(Container, service_type, key))

TryResolve(service_type) ==
    Resolves("try_resolve", << service_type, NoKey >>,
             try_resolve(Container, service_type),
             resolve(Container, service_type))

TryResolveKeyed(service_type, key) ==
    Resolves("try_resolve_keyed", << service_type, key >>,
             try_resolve_keyed(Container, service_type, key),
             resolve_keyed(Container, service_type, key))

GetAllServices(service_type) ==
    LET Found(s) == get_registrations_for_type(registrations, s)
        Gets(r) ==
            /\ r.c.next_id <= MaxObjects + 1
            /\ Len(r.c.resolution_stack) <= MaxStack
            /\ Alone
            /\ Becomes(r.c)
            /\ last' = [Quiet("get_all_services") EXCEPT
                          !.service_type = service_type,
                          !.kind = r.kind,
                          !.created = r.c.next_id - next_id,
                          !.services = r.services,
                          !.runs = r.c.runs,
                          !.attempts = Len(Found(service_type)),
                          !.sure = Cardinality(
                              {i \in 1..Len(Found(service_type)) :
                                 Sure(Container, Found(service_type)[i])})]
            /\ singleton_productions' = ProductionsAfter(Container, r.c)
            /\ UNCHANGED << singleton_returned, scoped_returned,
                            ended_instances >>
    IN  Gets(get_all_services(Container, service_type))

CreateScope ==
    /\ Len(scopes) < MaxScopes
    /\ Alone
    /\ Becomes(create_scope(Container).c)
    /\ last' = Quiet("create_scope")
    /\ scoped_returned' = Append(scoped_returned, [p \in Pairs |-> {}])
    /\ UNCHANGED << singleton_returned, singleton_productions,
                    ended_instances >>

\* begin_scope(scope): scope is 0 (None: a new scope is created) or one of
\* the scopes created so far.
BeginScope(scope) ==
    /\ scope = 0 => Len(scopes) < MaxScopes
    /\ Alone
    /\ Becomes(begin_scope(Container, scope).c)
    /\ last' = [Quiet("begin_scope") EXCEPT !.scope = scope]
    /\ scoped_returned' =
         IF scope = 0
           THEN Append(scoped_returned, [p \in Pairs |-> {}])
           ELSE scoped_returned
    /\ UNCHANGED << singleton_returned, singleton_productions,
                    ended_instances >>

\* The scope has been disposed by a call with outcome r.
Disposed(scope, r) ==
    IF scope # 0 /\ r.kind = OK
      THEN /\ ended_instances' =
                ended_instances \cup HeldBy(Container, scope)
           /\ scoped_returned' =
                [scoped_returned EXCEPT ![scope] = [p \in Pairs |-> {}]]
      ELSE UNCHANGED << ended_instances, scoped_returned >>

\* The scope that was current has been disposed by a call that left c.
Ended(r) == Disposed(current_scope, r)

\* What the caller sees of a call that disposes a scope: the scope, the
\* disposable instances it held, and whether the call changed anything.
Disposing(op, scope, r) ==
    [Quiet(op) EXCEPT !.kind = r.kind, !.scope = scope,
                      !.held = Disposables(Container, scope),
                      !.changed = r.c # Container]

\* scope.dispose() called by the owner of a scope the container created.
Dispose(scope) ==
    LET Disposes(r) ==
            /\ Alone
            /\ Becomes(r.c)
            /\ last' = Disposing("dispose", scope, r)
            /\ Disposed(scope, r)
            /\ UNCHANGED << singleton_returned, singleton_productions >>
    IN  Disposes(dispose(Container, scope))

\* scope.set_scoped_instance(service_type, key, cls()) called by the owner
\* of a scope the container created (DIScope, lines 33-38): the owner
\* builds an object of the class and stores it in the scope.
SetScopedInstance(scope, service_type, key, cls) ==
    /\ next_id <= MaxObjects
    /\ Alone
    /\ Becomes([Container EXCEPT
                  !.scopes[scope] =
                     set_scoped_instance(@, service_type, key,
                                         Object(next_id, cls, << >>)),
                  !.next_id = @ + 1])
    /\ last' = [Quiet("set_scoped_instance") EXCEPT
                  !.service_type = service_type, !.key = key,
                  !.value = Object(next_id, cls, << >>), !.scope = scope]
    /\ UNCHANGED << singleton_returned, singleton_productions,
                    scoped_returned, ended_instances >>

EndScope ==
    LET Ends(r) ==
            /\ Alone
            /\ Becomes(r.c)
            /\ last' = Disposing("end_scope", current_scope, r)
            /\ Ended(r)
            /\ UNCHANGED << singleton_returned, singleton_productions >>
    IN  Ends(end_scope(Container))

Clear ==
    LET Clears(r) ==
            /\ Alone
            /\ Becomes(r.c)
            /\ last' = [Disposing("clear", current_scope, r) EXCEPT
                          !.cleared = {p \in Pairs :
                                         is_registered(Container, p[1], p[2])}]
            /\ Ended(r)
            /\ singleton_returned' = [p \in Pairs |-> {}]
            /\ singleton_productions' = [p \in Pairs |-> NoProductions]
    IN  Clears(clear(Container))

\* The caller constructs a ServiceRegistration itself, as the tests of
\* registration.py do; the container is not involved.
NewServiceRegistration(service_type, implementation_type, instance, factory, lifetime, key) ==
    /\ last' = [Quiet("ServiceRegistration") EXCEPT
                  !.service_type = service_type,
                  !.key = key,
                  !.written = Arguments(implementation_type, instance,
                                        factory, lifetime),
                  !.value = ServiceRegistration(
                                service_type, implementation_type, instance,
                                factory, lifetime, key)]
    /\ UNCHANGED << registrations, singleton_instances, current_scope,
                    resolution_stack, scopes, next_id, disposed,
                    singleton_returned, singleton_productions,
                    scoped_returned, ended_instances,
                    threads, provider, requests >>

(***************************************************************************)
(* Threads.  Several threads call resolve / resolve_keyed on one container *)
(* at the same time.  The interpreter may switch threads between any two   *)
(* bytecodes, so a call is a sequence of steps, one for each read or write *)
(* of a field of the container; a thread's Python frames of                *)
(* _resolve_keyed_internal are its own, the container's fields are shared. *)
(***************************************************************************)
\* The local variable registration before get_registration has bound it.
NoRegistration ==
    ServiceRegistration(NoType, NoType, None, NoFactory, "None", NoKey)

\* A frame of _resolve_keyed_internal(service_type, key) that has just been
\* entered: pc is the place of the frame in the method, dependencies the
\* list the producer's loop has filled so far, result what the frame will
\* return or raise, scope the DIScope object that _create_instance has read
\* from self._current_scope, chain the list that the comprehension of line
\* 218 has built so far.  public tells that the frame was entered from
\* resolve_keyed, called by the body of a producer, whose finally clause
\* (line 185) runs when the frame has ended.
Frame(service_key) ==
    [service_key |-> service_key, pc |-> "check",
     registration |-> NoRegistration, dependencies |-> << >>,
     result |-> Outcome(Return(<< >>, None)), scope |-> 0, chain |-> << >>,
     public |-> FALSE]

\* resolve_keyed(service_type, key), lines 180-183: the method enters
\* _resolve_keyed_internal.
PublicFrame(service_key) == [Frame(service_key) EXCEPT !.public = TRUE]

NoCall == << NoType, NoKey >>

\* What one step of a frame does: the container and frame it leaves, the
\* call of _resolve_keyed_internal it makes (NoCall if none) and whether
\* the call goes through the public resolve_keyed, whether the frame has
\* ended, and the object it has constructed (0 if none).
Stepped(c, frame) ==
    [c |-> c, frame |-> frame, call |-> NoCall, public |-> FALSE,
     returns |-> FALSE, created |-> 0]
Fails(c, frame, kind, service_type, chain) ==
    Stepped(c, [frame EXCEPT
                  !.pc = "finally",
                  !.result = Outcome(Raise(c, kind, service_type, chain))])
Yields(c, frame, value) ==
    Stepped(c, [frame EXCEPT !.pc = "finally",
                             !.result = Outcome(Return(c, value))])
\* The frame ends: with its result, or with the exception that a statement
\* outside the try statement or inside the finally clause has raised.
Ends(c, frame) == [Stepped(c, frame) EXCEPT !.returns = TRUE]
EndsWith(c, frame, kind, chain) ==
    Ends(c, [frame EXCEPT
               !.result = Outcome(Raise(c, kind, NoType, chain))])

\* _resolve_keyed_internal, line 215: is the key on the resolution stack?
check_step(c, frame) ==
    Stepped(c, [frame EXCEPT !.pc =
        IF InSeq(frame.service_key, c.resolution_stack)
          THEN "cycle" ELSE "push"])

\* line 216: the key is appended to the stack.
cycle_step(c, frame) ==
    Stepped([c EXCEPT !.resolution_stack = Append(@, frame.service_key)],
            [frame EXCEPT !.pc = "chain"])

\* lines 217-219: one turn of the comprehension over the stack, which reads
\* the next entry of the list as it is now; when the list has no further
\* entry CircularDependencyException is raised with the entries read.  The
\* try statement has not been entered, so the frame ends without the
\* finally clause.
chain_step(c, frame) ==
    IF Len(frame.chain) < Len(c.resolution_stack)
      THEN Stepped(c, [frame EXCEPT !.chain =
                         Append(@, c.resolution_stack[Len(frame.chain) + 1])])
      ELSE EndsWith(c, frame, CircularDependencyException, frame.chain)

\* line 221
push_step(c, frame) ==
    Stepped([c EXCEPT !.resolution_stack = Append(@, frame.service_key)],
            [frame EXCEPT !.pc = "lookup"])

\* lines 224-233
lookup_step(c, frame) ==
    IF ~registry_is_registered(c.registrations, frame.service_key[1],
                               frame.service_key[2])
      THEN Fails(c, frame, ServiceNotRegisteredException,
                 frame.service_key[1], << >>)
      ELSE Stepped(c, [frame EXCEPT
                         !.pc = "create",
                         !.registration =
                             DictGet(c.registrations, frame.service_key)])

\* _create_instance, line 248 (is the key in the singleton cache?) and line
\* 257 (is there a current scope?).
create_step(c, frame) ==
    LET registration == frame.registration
        singleton_key == << registration.service_type, registration.key >>
    IN  IF registration.lifetime = SINGLETON
          THEN Stepped(c, [frame EXCEPT !.pc =
                 IF DictHas(c.singleton_instances, singleton_key)
                   THEN "cached" ELSE "produce"])
        ELSE IF registration.lifetime = SCOPED
          THEN IF c.current_scope = 0
                 THEN Fails(c, frame, ScopeException, NoType, << >>)
                 ELSE Stepped(c, [frame EXCEPT !.pc = "scope"])
        ELSE Stepped(c, [frame EXCEPT !.pc = "produce"])

\* line 249: the cache is read under the key; a key that is no longer in
\* it raises KeyError.
cached_step(c, frame) ==
    LET singleton_key == << frame.registration.service_type,
                            frame.registration.key >>
    IN  IF DictHas(c.singleton_instances, singleton_key)
          THEN Yields(c, frame, DictGet(c.singleton_instances, singleton_key))
          ELSE Fails(c, frame, KeyError, NoType, << >>)

\* lines 260 and 265: self._current_scope is read for the call of its
\* method; None has no such method.
scope_step(c, frame, pc) ==
    IF c.current_scope = 0
      THEN Fails(c, frame, AttributeError, NoType, << >>)
      ELSE Stepped(c, [frame EXCEPT !.pc = pc, !.scope = c.current_scope])

\* DIScope.get_scoped_instance, line 31, and line 263: the scope that was
\* read holds an instance, or a new one is to be produced.
scoped_step(c, frame) ==
    LET Found(instance) ==
            IF instance # None THEN Yields(c, frame, instance)
            ELSE Stepped(c, [frame EXCEPT !.pc = "produce"])
    IN  Found(get_scoped_instance(c.scopes[frame.scope],
                                  frame.registration.service_type,
                                  frame.registration.key))

\* The class or factory that produces the instance of a registration.
Producer(registration) ==
    IF registration.strategy = TYPE_TO_FACTORY
      THEN registration.factory
      ELSE registration.implementation_type

\* implementation_type(*dependencies) (line 338) / factory(*dependencies)
\* (line 360): the body of the producer, after the call it may have made
\* on the container has returned, yields the new object.
construct_step(c, frame) ==
    [Stepped([c EXCEPT !.next_id = @ + 1],
             [frame EXCEPT
                !.pc = "store",
                !.result = Outcome(Return(c,
                    Object(c.next_id, Producer(frame.registration),
                           frame.dependencies)))])
       EXCEPT !.created = c.next_id]

\* _create_new_instance with _create_type_instance and _invoke_factory:
\* one turn of the loop over the parameters (a dependency is resolved by a
\* call of _resolve_internal), or, after the loop, the call of the
\* producer: its body raises an error of its own, calls the container's
\* resolve_keyed and waits for it, or yields the new object.
produce_step(c, frame) ==
    LET registration == frame.registration
        producer == Producer(registration)
        i == Len(frame.dependencies) + 1
    IN  IF registration.strategy = TYPE_TO_INSTANCE
          THEN Stepped(c, [frame EXCEPT
                             !.pc = "store",
                             !.result = Outcome(Return(c, registration.instance))])
        ELSE IF producer = "None"
          THEN Fails(c, frame, InvalidRegistrationException, NoType, << >>)
        ELSE IF i > Len(Parameters(producer))
          THEN IF Raises(producer)
                 THEN Fails(c, frame, DomainError, NoType, << >>)
               ELSE IF Reentry(producer)[1] # NoType
                 THEN [Stepped(c, [frame EXCEPT !.pc = "body"])
                         EXCEPT !.call = Reentry(producer), !.public = TRUE]
               ELSE construct_step(c, frame)
        ELSE IF Parameters(producer)[i].annotation = Empty
          THEN Fails(c, frame, InvalidRegistrationException, NoType, << >>)
        ELSE IF /\ registration.strategy = TYPE_TO_TYPE
                /\ Parameters(producer)[i].has_default
                /\ ~registry_is_registered(
                      c.registrations, Parameters(producer)[i].annotation, NoKey)
          THEN Stepped(c, [frame EXCEPT !.dependencies = Append(@, None)])
        ELSE [Stepped(c, frame) EXCEPT
                !.call = << Parameters(producer)[i].annotation, NoKey >>]

\* _create_instance, line 252: the new instance is put in the singleton
\* cache; line 265: the current scope is read; a Transient instance is
\* returned as it is.
store_step(c, frame) ==
    LET registration == frame.registration
        singleton_key == << registration.service_type, registration.key >>
    IN  IF registration.lifetime = SINGLETON
          THEN Stepped([c EXCEPT !.singleton_instances =
                            DictSet(@, singleton_key, frame.result.value)],
                       [frame EXCEPT !.pc = "finally"])
        ELSE IF registration.lifetime = SCOPED
          THEN scope_step(c, frame, "set")
        ELSE Stepped(c, [frame EXCEPT !.pc = "finally"])

\* DIScope.set_scoped_instance, line 38: the instance is put in the scope
\* that line 265 has read.
set_step(c, frame) ==
    Stepped([c EXCEPT !.scopes[frame.scope] =
                set_scoped_instance(@, frame.registration.service_type,
                                    frame.registration.key,
                                    frame.result.value)],
            [frame EXCEPT !.pc = "finally"])

\* _resolve_keyed_internal, line 238, the first operand: is the stack
\* empty?  The frame ends when it is.
finally_step(c, frame) ==
    IF c.resolution_stack = << >>
      THEN Ends(c, frame)
      ELSE Stepped(c, [frame EXCEPT !.pc = "top"])

\* line 238, the second operand: the last entry of the stack is read and
\* compared with the key; a stack that is empty by now raises IndexError.
top_step(c, frame) ==
    LET stack == c.resolution_stack
    IN  IF stack = << >>
          THEN EndsWith(c, frame, IndexError, << >>)
        ELSE IF stack[Len(stack)] = frame.service_key
          THEN Stepped(c, [frame EXCEPT !.pc = "pop"])
        ELSE Ends(c, frame)

\* line 239: the last entry of the stack, whichever it is by now, is
\* removed; a stack that is empty by now raises IndexError.
pop_step(c, frame) ==
    LET stack == c.resolution_stack
    IN  IF stack = << >>
          THEN EndsWith(c, frame, IndexError, << >>)
          ELSE Ends([c EXCEPT !.resolution_stack =
                                 SubSeq(stack, 1, Len(stack) - 1)],
                    frame)

\* resolve_keyed, line 185: the finally clause of the public method that
\* the body of a producer has called clears the resolution stack, and the
\* method ends with what _resolve_keyed_internal has returned or raised.
clear_step(c, frame) ==
    Ends([c EXCEPT !.resolution_stack = << >>], frame)

\* A step that ends _resolve_keyed_internal in a frame entered from
\* resolve_keyed takes the frame to the finally clause of resolve_keyed.
public_step(step) ==
    IF step.returns /\ step.frame.public
      THEN [step EXCEPT !.returns = FALSE, !.frame.pc = "clear"]
      ELSE step

internal_step(c, frame) ==
    CASE frame.pc = "check" -> check_step(c, frame)
      [] frame.pc = "cycle" -> cycle_step(c, frame)
      [] frame.pc = "chain" -> chain_step(c, frame)
      [] frame.pc = "push" -> push_step(c, frame)
      [] frame.pc = "lookup" -> lookup_step(c, frame)
      [] frame.pc = "create" -> create_step(c, frame)
      [] frame.pc = "cached" -> cached_step(c, frame)
      [] frame.pc = "scope" -> scope_step(c, frame, "scoped")
      [] frame.pc = "scoped" -> scoped_step(c, frame)
      [] frame.pc = "produce" -> produce_step(c, frame)
      [] frame.pc = "construct" -> construct_step(c, frame)
      [] frame.pc = "store" -> store_step(c, frame)
      [] frame.pc = "set" -> set_step(c, frame)
      [] frame.pc = "finally" -> finally_step(c, frame)
      [] frame.pc = "top" -> top_step(c, frame)
      [] frame.pc = "pop" -> pop_step(c, frame)

\* One step of the innermost frame of a thread.
frame_step(c, frame) ==
    IF frame.pc = "clear" THEN clear_step(c, frame)
    ELSE public_step(internal_step(c, frame))

\* The frames of a thread after a step of its innermost frame: the frame
\* goes on, calls _resolve_keyed_internal (which the interpreter refuses
\* with RecursionError when the frames have reached its limit; the finally
\* clause of resolve_keyed runs all the same), or ends,
\* and then its caller gets the instance as the next dependency or the
\* exception, which takes the caller to its finally clause; a caller whose
\* producer's body has made the call goes on with the body and does not
\* keep the instance.
frames_after(frames, step) ==
    LET n == Len(frames)
        callers == SubSeq(frames, 1, n - 1)
    IN  IF step.call # NoCall
          THEN IF n < RecursionLimit
                 THEN Append(Append(callers, step.frame),
                             IF step.public THEN PublicFrame(step.call)
                             ELSE Frame(step.call))
               ELSE IF step.public
                 THEN Append(Append(callers, step.frame),
                        [PublicFrame(step.call) EXCEPT
                           !.pc = "clear",
                           !.result = Outcome(Raise(<< >>, RecursionError,
                                                    NoType, << >>))])
               ELSE Append(callers,
                      [step.frame EXCEPT
                         !.pc = "finally",
                         !.result = Outcome(Raise(<< >>, RecursionError,
                                                  NoType, << >>))])
        ELSE IF ~step.returns
          THEN Append(callers, step.frame)
        ELSE IF n = 1
          THEN << >>
        ELSE IF step.frame.result.kind # OK
          THEN [callers EXCEPT ![n - 1].pc = "finally",
                               ![n - 1].result = step.frame.result]
        ELSE IF callers[n - 1].pc = "body"
          THEN [callers EXCEPT ![n - 1].pc = "construct"]
        ELSE [callers EXCEPT ![n - 1].dependencies =
                                Append(@, step.frame.result.value)]

\* A call of end_scope() or clear() by a thread, step by step.  pc is its
\* place in the method, scope the DIScope that line 376 / 404 has read
\* from self._current_scope, used the size of the scope's dict when the
\* loop of DIScope.dispose created its iterator, position the number of
\* instances the loop has visited.
Ending(method) ==
    [method |-> method, pc |-> IF method = "clear" THEN "registry" ELSE "test",
     scope |-> 0, used |-> 0, position |-> 0]

\* What one step of the call does: the container and the call it leaves
\* and, when the call has ended, the exception it raises or OK.
Goes(c, ending, pc) ==
    [c |-> c, ending |-> [ending EXCEPT !.pc = pc], returns |-> FALSE,
     kind |-> OK]
Over(c, ending, kind) ==
    [c |-> c, ending |-> ending, returns |-> TRUE, kind |-> kind]

\* clear, line 401
registry_step(c, ending) ==
    Goes([c EXCEPT !.registrations = << >>], ending, "singletons")

\* clear, line 402
singletons_step(c, ending) ==
    Goes([c EXCEPT !.singleton_instances = << >>], ending, "test")

\* end_scope, line 375, and clear, line 403: is there a current scope?
test_step(c, ending) ==
    IF c.current_scope = 0 THEN Over(c, ending, OK)
    ELSE Goes(c, ending, "dispose")

\* lines 376 and 404: self._current_scope is read again for the call of
\* dispose; None has no such method.
dispose_step(c, ending) ==
    IF c.current_scope = 0 THEN Over(c, ending, AttributeError)
    ELSE Goes(c, [ending EXCEPT !.scope = c.current_scope], "values")

\* DIScope.dispose, line 42: the iterator over the values of the scope's
\* dict is created; it keeps the size the dict has now.
values_step(c, ending) ==
    Goes(c, [ending EXCEPT !.used = Len(c.scopes[ending.scope]),
                           !.position = 0],
         "next")

\* DIScope.dispose, lines 42-44: one turn of the loop.  The iterator
\* raises RuntimeError when the dict has changed its size; an instance with
\* a dispose attribute has it called, and a hook that raises ends the call.
next_step(c, ending) ==
    LET scoped_instances == c.scopes[ending.scope]
        Hook(instance, hook) ==
            IF hook = "raises" THEN Over(c, ending, DomainError)
            ELSE Goes([c EXCEPT !.disposed =
                          IF hook = "ok" THEN @ \cup {instance.id} ELSE @],
                      [ending EXCEPT !.position = @ + 1], "next")
    IN  IF Len(scoped_instances) # ending.used
          THEN Over(c, ending, RuntimeError)
        ELSE IF ending.position < ending.used
          THEN Hook(scoped_instances[ending.position + 1].value,
                    DisposeHook(
                      scoped_instances[ending.position + 1].value.cls))
        ELSE Goes(c, ending, "empty")

\* DIScope.dispose, line 45
empty_step(c, ending) ==
    Goes([c EXCEPT !.scopes[ending.scope] = << >>], ending, "write")

\* end_scope, line 377, and clear, line 405
write_step(c, ending) ==
    Over([c EXCEPT !.current_scope = 0], ending, OK)

ending_step(c, ending) ==
    CASE ending.pc = "registry" -> registry_step(c, ending)
      [] ending.pc = "singletons" -> singletons_step(c, ending)
      [] ending.pc = "test" -> test_step(c, ending)
      [] ending.pc = "dispose" -> dispose_step(c, ending)
      [] ending.pc = "values" -> values_step(c, ending)
      [] ending.pc = "next" -> next_step(c, ending)
      [] ending.pc = "empty" -> empty_step(c, ending)
      [] ending.pc = "write" -> write_step(c, ending)

\* The fields of a DIContainer that ServiceProvider has let go of.
Kept(c) ==
    [live |-> FALSE, registrations |-> c.registrations,
     singleton_instances |-> c.singleton_instances,
     current_scope |-> c.current_scope,
     resolution_stack |-> c.resolution_stack]

\* The container a thread's call works on.  The DIScope objects, the
\* identities of objects and the dispose() hooks that have run belong to
\* no container.
Held(thread) ==
    IF thread.container.live THEN Container
    ELSE [Container EXCEPT
            !.registrations = thread.container.registrations,
            !.singleton_instances = thread.container.singleton_instances,
            !.current_scope = thread.container.current_scope,
            !.resolution_stack = thread.container.resolution_stack]

\* A step of thread t has left its container as c and the thread as thread.
Acts(t, c, thread) ==
    /\ scopes' = c.scopes
    /\ next_id' = c.next_id
    /\ disposed' = c.disposed
    /\ IF threads[t].container.live
         THEN /\ registrations' = c.registrations
              /\ singleton_instances' = c.singleton_instances
              /\ current_scope' = c.current_scope
              /\ resolution_stack' = c.resolution_stack
              /\ threads' = [threads EXCEPT ![t] = thread]
         ELSE /\ UNCHANGED << registrations, singleton_instances,
                              current_scope, resolution_stack >>
              /\ threads' = [threads EXCEPT ![t] =
                   [thread EXCEPT !.container =
                      IF thread.pc = "done" THEN Live ELSE Kept(c)]]

\* The thread enters a method of the container: the resolve methods enter
\* _resolve_keyed_internal, end_scope and clear their first statement.
Enters(thread, method, service_key, scope) ==
    [thread EXCEPT
       !.pc = CASE method \in {"resolve", "resolve_keyed", "try_resolve",
                               "try_resolve_keyed"} -> "running"
                [] method \in {"end_scope", "clear"} -> "ending"
                [] OTHER -> "calling",
       !.method = method,
       !.service_key = service_key,
       !.scope = scope,
       !.frames = CASE method \in {"resolve", "resolve_keyed", "try_resolve",
                                   "try_resolve_keyed"}
                         -> << Frame(service_key) >>
                    [] method \in {"end_scope", "clear"}
                         -> << Ending(method) >>
                    [] OTHER -> << >>]

\* The call of the thread has ended.
Done(thread, kind, value) ==
    [thread EXCEPT !.pc = "done",
                   !.outcome = [kind |-> kind, value |-> value,
                                error_type |-> NoType,
                                dependency_chain |-> << >>]]

\* A thread calls resolve(service_type) or resolve_keyed(service_type, key)
\* on the container.
ThreadCall(t, service_type, key) ==
    /\ threads[t].pc = "idle"
    /\ threads' = [threads EXCEPT ![t] =
                     Enters(IdleThread,
                            IF key = NoKey THEN "resolve" ELSE "resolve_keyed",
                            << service_type, key >>, 0)]
    /\ UNCHANGED << registrations, singleton_instances, current_scope,
                    resolution_stack, scopes, next_id, disposed, last,
                    singleton_returned, singleton_productions,
                    scoped_returned, ended_instances, provider, requests >>

\* A thread takes the next step of its call: a step of its innermost frame
\* or, when _resolve_keyed_internal has ended, the finally clause of
\* resolve / resolve_keyed / try_resolve / try_resolve_keyed (lines 177-178,
\* 184-185, 193-194, 202-203), which clears the resolution stack; the
\* except clause of the try_ methods (lines 191-192, 200-201) has turned
\* ServiceNotRegisteredException into None.
ThreadStep(t) ==
    LET thread == threads[t]
        Last(step) == step.returns /\ Len(thread.frames) = 1
        Steps(step) ==
            /\ step.c.next_id <= MaxObjects + 1
            /\ Acts(t, step.c,
                 [thread EXCEPT
                    !.frames = frames_after(thread.frames, step),
                    !.created =
                        IF step.created = 0 THEN @
                        ELSE @ \cup {<< step.frame.service_key,
                                        step.created >>},
                    !.pc = IF Last(step) THEN "clear" ELSE @,
                    !.outcome = IF Last(step) THEN step.frame.result ELSE @,
                    !.scope =
                        IF /\ Last(step)
                           /\ step.frame.result.kind = OK
                           /\ step.frame.registration.lifetime = SCOPED
                          THEN step.frame.scope ELSE @])
    IN  /\ thread.pc \in {"running", "clear"}
        /\ IF thread.pc = "running"
             THEN Steps(frame_step(Held(thread),
                                   thread.frames[Len(thread.frames)]))
             ELSE Acts(t, [Held(thread) EXCEPT !.resolution_stack = << >>],
                       [thread EXCEPT
                          !.pc = "done",
                          !.outcome =
                             IF /\ thread.method \in {"try_resolve",
                                                       "try_resolve_keyed"}
                                /\ @.kind = ServiceNotRegisteredException
                               THEN Outcome(Return(<< >>, None))
                               ELSE @])
        /\ UNCHANGED << last, singleton_returned, singleton_productions,
                        scoped_returned, ended_instances, provider, requests >>

\* A thread executes create_scope (line 364) or begin_scope (lines 368-371)
\* on the container; creating a DIScope touches nothing that is shared, so
\* the one step of begin_scope is the assignment of line 370.
ThreadScopeStep(t) ==
    LET thread == threads[t]
        Made(made) ==
            /\ Len(made.c.scopes) <= MaxScopes
            /\ Acts(t, made.c, [Done(thread, OK, None) EXCEPT
                                  !.scope = made.scope])
    IN  /\ thread.pc = "calling"
        /\ Made(IF thread.method = "create_scope"
                  THEN create_scope(Held(thread))
                  ELSE begin_scope(Held(thread), thread.scope))
        /\ UNCHANGED << last, singleton_returned, singleton_productions,
                        scoped_returned, ended_instances, provider, requests >>

\* The thread's caller has the outcome; the thread is free for another call.
ThreadReturn(t) ==
    /\ threads[t].pc = "done"
    /\ requests[t].pc = "none"
    /\ threads' = [threads EXCEPT ![t] = IdleThread]
    /\ UNCHANGED << registrations, singleton_instances, current_scope,
                    resolution_stack, scopes, next_id, disposed, last,
                    singleton_returned, singleton_productions,
                    scoped_returned, ended_instances, provider, requests >>

\* A thread calls end_scope() or clear() on the container.
ThreadEnds(t, method) ==
    /\ threads[t].pc = "idle"
    /\ threads' = [threads EXCEPT ![t] =
                     Enters(IdleThread, method, NoCall, 0)]
    /\ UNCHANGED << registrations, singleton_instances, current_scope,
                    resolution_stack, scopes, next_id, disposed, last,
                    singleton_returned, singleton_productions,
                    scoped_returned, ended_instances, provider, requests >>

\* The thread takes the next step of its end_scope() or clear() call.  When
\* the call returns from line 377 / 405, it has disposed the scope it read
\* and has taken the scope that was current by then out of _current_scope.
ThreadEndStep(t) ==
    LET thread == threads[t]
        Steps(c, ending, step) ==
            Acts(t, step.c,
                 IF step.returns
                   THEN [Done(thread, step.kind, None) EXCEPT
                           !.frames = << >>,
                           !.ended = IF step.kind = OK /\ ending.pc = "write"
                                       THEN {ending.scope, c.current_scope}
                                              \ {0}
                                       ELSE {}]
                   ELSE [thread EXCEPT !.frames = << step.ending >>])
        Takes(c, ending) == Steps(c, ending, ending_step(c, ending))
    IN  /\ thread.pc = "ending"
        /\ Takes(Held(thread), thread.frames[1])
        /\ UNCHANGED << last, singleton_returned, singleton_productions,
                        scoped_returned, ended_instances, provider, requests >>

(***************************************************************************)
(* service_provider.py: ServiceProvider.  Its class attributes are the     *)
(* variable provider; the fields of the DIContainer that _container refers *)
(* to are the container variables.  configure and reset run under _lock;   *)
(* get_container, is_configured and the passthrough methods take no lock,  *)
(* so every read and write of a class attribute is a step of its own, and  *)
(* the steps of the threads interleave.                                    *)
(***************************************************************************)
DIException == "DIException"
ContainerNotConfiguredException == "ContainerNotConfiguredException"

\* A statement of a configuration function: a register call on the
\* container it is given, or a raise statement.
Statement(call, service_type, key, implementation_type, lifetime) ==
    [call |-> call, service_type |-> service_type, key |-> key,
     implementation_type |-> implementation_type, lifetime |-> lifetime]

\* The configuration functions of the application, as their statements:
\* configure_app registers its services, configure_web the Scoped services
\* of a web application, and configure_failing registers one service and
\* then raises.
configuration_func(func) ==
    CASE func = "configure_failing" ->
           << Statement("register", "A", NoKey, "Leaf", SINGLETON),
              Statement("raise", NoType, NoKey, NoType, "None") >>
      [] func = "configure_web" ->
           << Statement("register", "C", NoKey, "Leaf", SCOPED),
              Statement("register_keyed", "C", "k1", "Leaf", SCOPED) >>
      [] OTHER ->
           << Statement("register", "A", NoKey, "Leaf", SINGLETON),
              Statement("register", "C", NoKey, "Leaf", SCOPED) >>

\* A lock that excludes no thread.
acquirable_always(p) == TRUE

\* `with cls._lock`: the lock can be taken when no thread holds it.
acquirable(p) == p._lock = 0

\* ServiceProvider.get_container, line 69: the two operands of the test.
not_configured(p) == ~p._is_configured
container_is_none(p) == ~p._container

\* ServiceProvider.get_container as one thread executes it when no other
\* thread writes the attributes meanwhile: the exception it raises, or OK.
get_container(p) ==
    IF not_configured(p) \/ container_is_none(p)
      THEN ContainerNotConfiguredException
      ELSE OK

\* ServiceProvider.is_configured
is_configured(p) == p._is_configured

\* A thread is inside configure, and inside reset.
Configures == {"locked", "create", "call", "ran", "set"}
Resets == {"container", "flag", "exit"}

\* DIContainer(): the fields of a new container.  Objects and DIScope
\* objects keep their identities, so the allocators go on.
NewContainer ==
    /\ registrations' = << >>
    /\ singleton_instances' = << >>
    /\ current_scope' = 0
    /\ resolution_stack' = << >>
    /\ singleton_returned' = [p \in Pairs |-> {}]
    /\ singleton_productions' = [p \in Pairs |-> NoProductions]
    /\ UNCHANGED << scopes, next_id, disposed, scoped_returned,
                    ended_instances >>

\* ServiceProvider lets go of its container (lines 62 and 120) while
\* thread t is inside configure or reset: a thread that is executing a
\* method of the container goes on with the container it has.
LetsGo(t, thread) ==
    /\ threads' =
         [u \in Threads |->
            IF u = t THEN thread
            ELSE IF /\ threads[u].pc \in {"calling", "running", "clear",
                                          "ending"}
                    /\ threads[u].container.live
              THEN [threads[u] EXCEPT !.container = Kept(Container)]
            ELSE threads[u]]
    /\ NewContainer

SameContainer ==
    UNCHANGED << registrations, singleton_instances, current_scope,
                 resolution_stack, scopes, next_id, disposed,
                 singleton_returned, singleton_productions,
                 scoped_returned, ended_instances >>

\* A thread that is inside a method of ServiceProvider.
Inside(method) == [IdleThread EXCEPT !.pc = "provider", !.method = method]

\* configure, line 58: the thread waits for the lock and takes it.
ConfigureEnter(t, func) ==
    /\ threads[t].pc = "idle"
    /\ requests[t].pc = "none"
    /\ acquirable(provider)
    /\ provider' = [provider EXCEPT
                      !._lock = t,
                      !.calls[t] = [NotCalling EXCEPT !.pc = "locked",
                                                      !.func = func]]
    /\ threads' = [threads EXCEPT ![t] = Inside("configure")]
    /\ SameContainer
    /\ UNCHANGED << last, requests >>

\* configure, lines 59-60: when the provider is configured the call raises
\* DIException, and the with statement releases the lock as the exception
\* leaves.
configure_rejected(p, t) ==
    [p EXCEPT !._lock = 0, !.calls[t] = NotCalling]

ConfigureCheck(t) ==
    /\ provider.calls[t].pc = "locked"
    /\ IF provider._is_configured
         THEN /\ provider' = configure_rejected(provider, t)
              /\ threads' = [threads EXCEPT ![t] = Done(@, DIException, None)]
         ELSE /\ provider' = [provider EXCEPT !.calls[t].pc = "create"]
              /\ UNCHANGED threads
    /\ SameContainer
    /\ UNCHANGED << last, requests >>

\* configure, line 62: _container refers to a new, empty container.
ConfigureCreate(t) ==
    /\ provider.calls[t].pc = "create"
    /\ provider' = [provider EXCEPT !._container = TRUE,
                                    !.calls[t].pc = "call"]
    /\ LetsGo(t, threads[t])
    /\ UNCHANGED << last, requests >>

\* configure, line 63, when configuration_func raises: line 64 is not
\* reached, and the with statement releases the lock as the exception
\* leaves.
configure_raised(p, t) ==
    [p EXCEPT !._lock = 0, !.calls[t] = NotCalling]

\* configure, line 63: the next statement of configuration_func, which has
\* the container of line 62 as its argument.  After its last statement the
\* function returns.
ConfigureCall(t) ==
    LET call == provider.calls[t]
        statements == configuration_func(call.func)
        statement == statements[call.position + 1]
    IN  /\ call.pc = "call"
        /\ IF statement.call = "raise"
             THEN /\ provider' = configure_raised(provider, t)
                  /\ threads' = [threads EXCEPT ![t] =
                                   Done(@, DomainError, None)]
                  /\ UNCHANGED registrations
             ELSE /\ provider' =
                       [provider EXCEPT
                          !.calls[t].position = @ + 1,
                          !.calls[t].pc =
                             IF call.position + 1 = Len(statements)
                               THEN "ran" ELSE "call"]
                  /\ registrations' =
                       (IF statement.call = "register_keyed"
                          THEN register_keyed(Container,
                                 statement.service_type, statement.key,
                                 statement.implementation_type,
                                 statement.lifetime)
                          ELSE register(Container,
                                 statement.service_type,
                                 statement.implementation_type,
                                 statement.lifetime)).registrations
                  /\ UNCHANGED threads
        /\ UNCHANGED << singleton_instances, current_scope, resolution_stack,
                        scopes, next_id, disposed, singleton_returned,
                        singleton_productions, scoped_returned,
                        ended_instances, last, requests >>

\* configure, line 64: the provider is configured.
ConfigureFinish(t) ==
    /\ provider.calls[t].pc = "ran"
    /\ provider' = [provider EXCEPT !._is_configured = TRUE,
                                    !.succeeded = @ + 1,
                                    !.calls[t].pc = "set"]
    /\ SameContainer
    /\ UNCHANGED << threads, last, requests >>

\* configure: the with statement releases the lock, and the call returns.
ConfigureExit(t) ==
    /\ provider.calls[t].pc = "set"
    /\ provider' = [provider EXCEPT !._lock = 0, !.calls[t] = NotCalling]
    /\ threads' = [threads EXCEPT ![t] = Done(@, OK, None)]
    /\ SameContainer
    /\ UNCHANGED << last, requests >>

\* reset, line 119: the thread waits for the lock and takes it.
ResetEnter(t) ==
    /\ threads[t].pc = "idle"
    /\ requests[t].pc = "none"
    /\ acquirable(provider)
    /\ provider' = [provider EXCEPT
                      !._lock = t,
                      !.succeeded = 0,
                      !.calls[t] = [NotCalling EXCEPT !.pc = "container"]]
    /\ threads' = [threads EXCEPT ![t] = Inside("reset")]
    /\ SameContainer
    /\ UNCHANGED << last, requests >>

\* reset, line 120
ResetContainer(t) ==
    /\ provider.calls[t].pc = "container"
    /\ provider' = [provider EXCEPT !._container = FALSE,
                                    !.calls[t].pc = "flag"]
    /\ LetsGo(t, threads[t])
    /\ UNCHANGED << last, requests >>

\* reset, line 121
ResetFlag(t) ==
    /\ provider.calls[t].pc = "flag"
    /\ provider' = [provider EXCEPT !._is_configured = FALSE,
                                    !.calls[t].pc = "exit"]
    /\ SameContainer
    /\ UNCHANGED << threads, last, requests >>

\* reset: line 122 writes _instance, which only ServiceProvider() reads;
\* the with statement releases the lock, and the call returns.
ResetExit(t) ==
    /\ provider.calls[t].pc = "exit"
    /\ provider' = [provider EXCEPT !._lock = 0, !.calls[t] = NotCalling]
    /\ threads' = [threads EXCEPT ![t] = Done(@, OK, None)]
    /\ SameContainer
    /\ UNCHANGED << last, requests >>

\* Thread t calls a method of ServiceProvider that begins with
\* get_container (get_container itself, or a passthrough method, lines
\* 76-109).  The first thing the call does to the class attributes is the
\* read of line 69, `not cls._is_configured`: when the flag is not set the
\* call raises.
GetContainerFlag(t, method, service_key, scope) ==
    LET thread == [Inside(method) EXCEPT !.service_key = service_key,
                                         !.scope = scope]
    IN  IF not_configured(provider)
          THEN /\ threads' = [threads EXCEPT ![t] =
                     Done(thread, ContainerNotConfiguredException, None)]
               /\ UNCHANGED provider
          ELSE /\ threads' = [threads EXCEPT ![t] = thread]
               /\ provider' = [provider EXCEPT !.calls[t].pc = "check"]

\* A thread of the application calls the method.
Passthrough(t, method, service_key, scope) ==
    /\ threads[t].pc = "idle"
    /\ requests[t].pc = "none"
    /\ GetContainerFlag(t, method, service_key, scope)
    /\ SameContainer
    /\ UNCHANGED << last, requests >>

\* ServiceProvider.get_container called by a thread of the application.
GetContainer(t) == Passthrough(t, "get_container", NoCall, 0)

\* Line 69, `cls._container is None`: the attribute is read and compared.
GetContainerCheck(t) ==
    /\ provider.calls[t].pc = "check"
    /\ provider' = [provider EXCEPT !.calls[t] = 
                      IF container_is_none(provider)
                        THEN NotCalling ELSE [@ EXCEPT !.pc = "return"]]
    /\ threads' = [threads EXCEPT ![t] =
                     IF container_is_none(provider)
                       THEN Done(@, ContainerNotConfiguredException, None)
                       ELSE @]
    /\ SameContainer
    /\ UNCHANGED << last, requests >>

\* What the container is that _container refers to: one whose
\* configuration function has returned, one whose configuration function
\* has not been called yet or is running, or one whose configuration
\* function has raised.
Configured(p) ==
    IF p._is_configured \/ \E u \in Threads : p.calls[u].pc \in {"ran", "set"}
      THEN "configured"
    ELSE IF \E u \in Threads : p.calls[u].pc = "call"
      THEN "configuring"
    ELSE "unfinished"

\* Line 74, `return cls._container`: the attribute is read again, and
\* get_container returns None or the container.  A passthrough method then
\* looks up its method, which None does not have, and enters it.
GetContainerReturn(t) ==
    LET thread == threads[t]
    IN  /\ provider.calls[t].pc = "return"
        /\ provider' = [provider EXCEPT !.calls[t] = NotCalling]
        /\ threads' = [threads EXCEPT ![t] =
             IF thread.method = "get_container"
               THEN IF ~provider._container
                      THEN [Done(thread, OK, None) EXCEPT !.got = "None"]
                      ELSE [Done(thread, OK, None) EXCEPT
                              !.got = Configured(provider)]
             ELSE IF ~provider._container
               THEN Done(thread, AttributeError, None)
             ELSE Enters(thread, thread.method, thread.service_key,
                         thread.scope)]
        /\ SameContainer
        /\ UNCHANGED << last, requests >>

(***************************************************************************)
(* fastapi_integration.py: the dependencies that get_scoped_service and    *)
(* get_keyed_scoped_service make, and ScopeCleanupMiddleware.  A           *)
(* dependency is a plain function: the framework runs it in a worker       *)
(* thread, so the dependencies of two requests interleave at every step of *)
(* the ServiceProvider and container methods they call.  The middleware    *)
(* runs on the event loop, one coroutine at a time, and gives way at its   *)
(* await.  Request q makes its calls as thread q.                          *)
(***************************************************************************)
\* No cleanup_send is between its await and its end: the event loop is free
\* for another coroutine.
LoopFree == \A o \in Requests : requests[o].pc # "cleanup"

\* An HTTP request arrives: ScopeCleanupMiddleware.__call__, lines 181-194,
\* passes it on to the application with cleanup_send in the place of send.
RequestArrives(q) ==
    /\ requests[q].phase = "none"
    /\ LoopFree
    /\ requests' = [requests EXCEPT ![q].phase = "running"]
    /\ SameContainer
    /\ UNCHANGED << threads, provider, last >>

\* The framework calls a dependency that get_scoped_service(service_type)
\* or get_keyed_scoped_service(service_type, key) made, for a parameter of
\* the request's handler.  Line 93 / 130: when request.state has no
\* _di_scope the dependency calls ServiceProvider.create_scope (line 94 /
\* 131), else ServiceProvider.resolve (line 99) or resolve_keyed (line 136).
ScopedDependency(q, service_type, key) ==
    /\ requests[q].phase = "running"
    /\ requests[q].pc = "none"
    /\ threads[q].pc = "idle"
    /\ IF requests[q]._di_scope = 0
         THEN /\ GetContainerFlag(q, "create_scope", NoCall, 0)
              /\ requests' = [requests EXCEPT
                                ![q].pc = "create",
                                ![q].service_key = << service_type, key >>]
         ELSE /\ GetContainerFlag(q, IF key = NoKey THEN "resolve"
                                                   ELSE "resolve_keyed",
                                  << service_type, key >>, 0)
              /\ requests' = [requests EXCEPT
                                ![q].pc = "resolve",
                                ![q].service_key = << service_type, key >>]
    /\ SameContainer
    /\ UNCHANGED last

\* The ServiceProvider call of the dependency of request q has ended, and
\* the dependency goes on.  An exception of create_scope or begin_scope
\* leaves the dependency (lines 94-96 are outside the try statement), and
\* it is not an HTTP error: it passes through ScopeCleanupMiddleware.
\* Lines 95-96 / 132-133: the scope is put in request.state and begun.
\* Line 99 / 136: the service is resolved, and returned.  Lines 100-105 /
\* 137-142: when resolve raises, end_scope is called, the attribute is
\* deleted and the exception raised again; an end_scope that raises leaves
\* the attribute.
DependencyStep(q) ==
    LET request == requests[q]
        thread == threads[q]
        kind == thread.outcome.kind
        Leaves(left) ==
            /\ requests' = [requests EXCEPT ![q] = left]
            /\ threads' = [threads EXCEPT ![q] = IdleThread]
            /\ UNCHANGED provider
        Calls(method, service_key, scope, waiting) ==
            /\ GetContainerFlag(q, method, service_key, scope)
            /\ requests' = [requests EXCEPT ![q] = waiting]
        Failed == [request EXCEPT !.phase = "failed", !.pc = "none"]
        Resolves_(waiting) ==
            Calls(IF request.service_key[2] = NoKey THEN "resolve"
                                                    ELSE "resolve_keyed",
                  request.service_key, 0, waiting)
    IN  /\ request.pc \in {"create", "begin", "resolve", "end"}
        /\ thread.pc = "done"
        /\ CASE request.pc = "create" ->
                  IF kind # OK THEN Leaves(Failed)
                  ELSE Calls("begin_scope", NoCall, thread.scope,
                             [request EXCEPT !.pc = "begin",
                                             !._di_scope = thread.scope])
             [] request.pc = "begin" ->
                  IF kind # OK THEN Leaves(Failed)
                  ELSE Resolves_([request EXCEPT !.pc = "resolve",
                                                 !.began = thread.scope])
             [] request.pc = "resolve" ->
                  IF kind = OK
                    THEN Leaves([request EXCEPT
                                   !.pc = "none",
                                   !.served = @ \cup ({thread.scope} \ {0})])
                    ELSE Calls("end_scope", NoCall, 0,
                               [request EXCEPT !.pc = "end"])
             [] request.pc = "end" ->
                  IF kind # OK THEN Leaves(Failed)
                  ELSE Leaves([Failed EXCEPT
                                 !._di_scope = 0,
                                 !.ended = @ \cup thread.ended])
        /\ SameContainer
        /\ UNCHANGED last

\* The handler of the request raises: line 194 awaits the application
\* outside any try statement, so the exception leaves __call__, and no
\* last body message has gone through cleanup_send.
HandlerFails(q) ==
    /\ requests[q].phase = "running"
    /\ requests[q].pc = "none"
    /\ LoopFree
    /\ requests' = [requests EXCEPT ![q].phase = "failed"]
    /\ last' = [Quiet("handler") EXCEPT !.kind = DomainError]
    /\ SameContainer
    /\ UNCHANGED << threads, provider >>

\* The handler returns and the last body message of the response goes
\* through cleanup_send, line 184: `await send(message)` hands the message
\* to the server and gives way to the event loop.
RequestResponds(q) ==
    /\ requests[q].phase = "running"
    /\ requests[q].pc = "none"
    /\ LoopFree
    /\ requests' = [requests EXCEPT ![q].phase = "sent"]
    /\ last' = Quiet("send")
    /\ SameContainer
    /\ UNCHANGED << threads, provider >>

\* cleanup_send goes on after its await, lines 186-190: the message was the
\* last body message, and ServiceProvider.end_scope is called.
CleanupSend(q) ==
    /\ requests[q].phase = "sent"
    /\ requests[q].pc = "none"
    /\ threads[q].pc = "idle"
    /\ LoopFree
    /\ GetContainerFlag(q, "end_scope", NoCall, 0)
    /\ requests' = [requests EXCEPT ![q].pc = "cleanup"]
    /\ SameContainer
    /\ UNCHANGED last

\* cleanup_send, lines 190-192: end_scope has ended, and whatever it has
\* raised is ignored.
CleanupReturn(q) ==
    /\ requests[q].pc = "cleanup"
    /\ threads[q].pc = "done"
    /\ requests' = [requests EXCEPT
                      ![q].phase = "responded",
                      ![q].pc = "none",
                      ![q].ended = @ \cup threads[q].ended]
    /\ threads' = [threads EXCEPT ![q] = IdleThread]
    /\ last' = Quiet("cleanup_send")
    /\ SameContainer
    /\ UNCHANGED provider

(***************************************************************************)
(* The specifications.  Each draws the arguments of the calls from the     *)
(* classes of one application.                                             *)
(***************************************************************************)
\* An application whose classes depend on each other: the container is
\* asked for dependency graphs with cycles, missing registrations,
\* parameters without annotation, failing factories and scoped services.
GraphRegistrations ==
    { << "A", "NeedsB", TRANSIENT >>, << "A", "NeedsC", TRANSIENT >>,
      << "A", "NeedsA", TRANSIENT >>, << "A", "Leaf", SCOPED >>,
      << "A", "Unannotated", TRANSIENT >>,
      << "B", "NeedsA", TRANSIENT >>,
      << "C", "Leaf", TRANSIENT >> }
GraphFactories == { << "A", "make_failing", TRANSIENT >> }

Next ==
    \/ \E g \in GraphRegistrations : Register(g[1], g[2], g[3])
    \/ \E g \in GraphFactories : RegisterFactory(g[1], g[2], g[3])
    \/ \E s \in ServiceTypes : Resolve(s)
    \/ \E s \in ServiceTypes : TryResolve(s)
    \/ \E k \in Keys : ResolveKeyed("A", k)
    \/ \E k \in Keys : TryResolveKeyed("A", k)
    \/ \E s \in ServiceTypes : GetAllServices(s)
    \/ Clear

Spec == Init /\ [][Next]_vars

\* An application that registers one service type, unkeyed and under a
\* key, as Singleton and as Transient, by type, factory and instance, and
\* registers it again.
LifetimeRegistrations ==
    { << "A", "Leaf", SINGLETON >>, << "A", "Leaf", TRANSIENT >>,
      << "A", "Failing", SINGLETON >> }
LifetimeFactories == { << "A", "make_leaf", l >> : l \in {SINGLETON, TRANSIENT} }

LifetimeNext ==
    \/ \E g \in LifetimeRegistrations : Register(g[1], g[2], g[3])
    \/ \E g \in LifetimeFactories : RegisterFactory(g[1], g[2], g[3])
    \/ RegisterKeyed("A", "k1", "Leaf", SINGLETON)
    \/ RegisterInstance("A", Instance(1))
    \/ Resolve("A")
    \/ \E k \in Keys : ResolveKeyed("A", k)
    \/ GetAllServices("A")
    \/ Clear

LifetimeSpec == Init /\ [][LifetimeNext]_vars

\* An application that registers one service type, unkeyed and under a
\* key, as Scoped, and works with several scopes, in which it also stores
\* objects of its own.  The unkeyed registration is also replaced by a
\* Transient one.
ScopeRegistrations == { << "A", "Leaf", SCOPED >>, << "A", "Leaf", TRANSIENT >> }

ScopeNext ==
    \/ \E g \in ScopeRegistrations : Register(g[1], g[2], g[3])
    \/ RegisterKeyed("A", "k1", "Leaf", SCOPED)
    \/ Resolve("A")
    \/ ResolveKeyed("A", "k1")
    \/ CreateScope
    \/ \E scope \in 0..Len(scopes) : BeginScope(scope)
    \/ \E scope \in 1..Len(scopes) :
           SetScopedInstance(scope, "A", NoKey, "Leaf")
    \/ EndScope
    \/ Clear

ScopeSpec == Init /\ [][ScopeNext]_vars

\* An application that registers one service type unkeyed and under two
\* keys, with producers that succeed, that depend on the unkeyed
\* registration, and that fail in each of the ways a construction can fail.
KeyedRegistrations ==
    { << "A", "NeedsA", TRANSIENT >>, << "A", "NeedsC", TRANSIENT >>,
      << "A", "Leaf", SINGLETON >>, << "A", "Leaf", SCOPED >> }
KeyedKeyedRegistrations ==
    { << "A", "k1", "NeedsA", SINGLETON >>, << "A", "k1", "Leaf", SINGLETON >>,
      << "A", "k2", "Leaf", SINGLETON >> }

KeyedNext ==
    \/ \E g \in KeyedRegistrations : Register(g[1], g[2], g[3])
    \/ \E g \in KeyedKeyedRegistrations : RegisterKeyed(g[1], g[2], g[3], g[4])
    \/ RegisterFactory("A", "make_failing", TRANSIENT)
    \/ Resolve("A")
    \/ \E k \in Keys : ResolveKeyed("A", k)
    \/ GetAllServices("A")
    \/ Clear

KeyedSpec == Init /\ [][KeyedNext]_vars

\* An application that only registers: every register* method, for two
\* service types and one key, with each kind of producer, again and again.
RegistryNext ==
    \/ \E s \in {"A", "B"}, t \in {NoType, "Leaf"}, l \in {SINGLETON, TRANSIENT} :
           Register(s, t, l)
    \/ \E t \in {NoType, "Leaf"} : RegisterKeyed("A", "k1", t, SCOPED)
    \/ \E s \in {"A", "B"} : RegisterInstance(s, Instance(1))
    \/ \E n \in {1, 2} : RegisterKeyedInstance("A", "k1", Instance(n))
    \/ \E s \in {"A", "B"} : RegisterFactory(s, "make_leaf", TRANSIENT)
    \/ RegisterKeyedFactory("A", "k1", "make_leaf", SINGLETON)
    \/ Clear

RegistrySpec == Init /\ [][RegistryNext]_vars

\* An application whose scoped services have dispose() hooks, one of which
\* raises; it works with several scopes, stores objects of its own in them,
\* ends them and disposes them itself.
DisposeNext ==
    \/ Register("A", "BadDisposable", SCOPED)
    \/ RegisterKeyed("A", "k1", "Disposable", SCOPED)
    \/ Resolve("A")
    \/ ResolveKeyed("A", "k1")
    \/ \E scope \in 0..Len(scopes) : BeginScope(scope)
    \/ EndScope
    \/ \E scope \in 1..Len(scopes) : Dispose(scope)
    \/ \E scope \in 1..Len(scopes) :
           SetScopedInstance(scope, "A", NoKey, "Disposable")

DisposeSpec == Init /\ [][DisposeNext]_vars

\* The same application with a Singleton registration beside the Scoped
\* ones; it begins scopes and clears the container.
ClearRegistrations ==
    { << "A", "BadDisposable", SCOPED >>, << "A", "Leaf", SINGLETON >> }

ClearNext ==
    \/ \E g \in ClearRegistrations : Register(g[1], g[2], g[3])
    \/ RegisterKeyed("A", "k1", "Disposable", SCOPED)
    \/ Resolve("A")
    \/ ResolveKeyed("A", "k1")
    \/ \E scope \in 0..Len(scopes) : BeginScope(scope)
    \/ Clear

ClearSpec == Init /\ [][ClearNext]_vars

\* An application with a constructor and a factory that raise, registered
\* with every lifetime, directly and as the dependency of another class.
FailureRegistrations ==
    { << "A", "Failing", SINGLETON >>, << "A", "Failing", SCOPED >>,
      << "A", "NeedsC", SINGLETON >>, << "A", "NeedsC", SCOPED >>,
      << "C", "Failing", TRANSIENT >>, << "C", "Leaf", SINGLETON >> }
FailureFactories ==
    { << "A", "make_failing", TRANSIENT >>, << "C", "make_failing", SINGLETON >> }

FailureNext ==
    \/ \E g \in FailureRegistrations : Register(g[1], g[2], g[3])
    \/ \E g \in FailureFactories : RegisterFactory(g[1], g[2], g[3])
    \/ \E s \in {"A", "C"} : Resolve(s)
    \/ TryResolve("A")
    \/ BeginScope(0)
    \/ EndScope

FailureSpec == Init /\ [][FailureNext]_vars

\* An application whose threads resolve from one container: a Singleton
\* service C and a Transient service A, which needs C.  No class depends
\* on itself, directly or through others.
ThreadRegistrations ==
    { << "A", "NeedsC", TRANSIENT >>, << "C", "Leaf", SINGLETON >> }

ThreadNext ==
    \/ \E g \in ThreadRegistrations : Register(g[1], g[2], g[3])
    \/ \E t \in Threads, s \in {"A", "C"} : ThreadCall(t, s, NoKey)
    \/ \E t \in Threads : ThreadStep(t)
    \/ \E t \in Threads : ThreadReturn(t)

ThreadSpec == Init /\ [][ThreadNext]_vars

\* An application that ends its scope or clears the container in one
\* thread while another thread resolves a Singleton or a Scoped service and
\* the owner of the scopes begins a scope or stores an instance in one.
RaceRegistrations ==
    { << "C", "Leaf", SINGLETON >>, << "C", "Leaf", SCOPED >> }

RaceNext ==
    \/ \E g \in RaceRegistrations : Register(g[1], g[2], g[3])
    \/ BeginScope(0)
    \/ ThreadCall(1, "C", NoKey)
    \/ ThreadStep(1)
    \/ \E method \in {"end_scope", "clear"} : ThreadEnds(2, method)
    \/ ThreadEndStep(2)
    \/ \E t \in Threads : ThreadReturn(t)
    \/ \E scope \in 1..Len(scopes), service_type \in {"A", "B"} :
           SetScopedInstance(scope, service_type, NoKey, "Disposable")

RaceSpec == Init /\ [][RaceNext]_vars

\* A caller that constructs ServiceRegistration objects with every
\* combination of given and absent arguments.
RegistrationNext ==
    \E service_type \in {"A", "B"},
       implementation_type \in {NoType, "Leaf", "NeedsC"},
       instance \in {None, Instance(1)},
       factory \in {NoFactory, "make_leaf"},
       lifetime \in ServiceLifetime,
       key \in {NoKey, "k1"} :
        NewServiceRegistration(service_type, implementation_type, instance,
                               factory, lifetime, key)

RegistrationSpec == Init /\ [][RegistrationNext]_vars

\* An application that registers with every register* method while its
\* container has cached singletons, a current scope that holds instances,
\* and keys that get_all_services has left on the resolution stack.
WriteNext ==
    \/ Register("A", "NeedsA", SINGLETON)
    \/ RegisterKeyed("A", "k1", "Leaf", SCOPED)
    \/ RegisterInstance("A", Instance(1))
    \/ RegisterKeyedInstance("A", "k1", Instance(1))
    \/ RegisterFactory("A", "make_leaf", SINGLETON)
    \/ RegisterKeyedFactory("A", "k1", "make_leaf", SCOPED)
    \/ Resolve("A")
    \/ GetAllServices("A")
    \/ BeginScope(0)

WriteSpec == Init /\ [][WriteNext]_vars

\* An application that registers with every register* method, with each
\* lifetime and without a lifetime argument.
DefaultNext ==
    \/ \E s \in {"A", "B"}, l \in {Omitted} \cup ServiceLifetime :
           Register(s, "Leaf", l)
    \/ \E l \in {Omitted} \cup ServiceLifetime :
           RegisterKeyed("A", "k1", "Leaf", l)
    \/ \E s \in {"A", "B"} : RegisterInstance(s, Instance(1))
    \/ RegisterKeyedInstance("A", "k1", Instance(1))
    \/ \E s \in {"A", "B"}, l \in {Omitted} \cup ServiceLifetime :
           RegisterFactory(s, "make_leaf", l)
    \/ \E l \in {Omitted} \cup ServiceLifetime :
           RegisterKeyedFactory("A", "k1", "make_leaf", l)

DefaultSpec == Init /\ [][DefaultNext]_vars

\* The threads that call the passthrough methods; every thread calls
\* configure, reset and get_container.
Callers == {2}

\* An application whose threads configure and reset the ServiceProvider and
\* use the container only through it.
ProviderNext ==
    \/ \E t \in Threads, func \in {"configure_app", "configure_failing"} :
           ConfigureEnter(t, func)
    \/ \E t \in Threads : ConfigureCheck(t)
    \/ \E t \in Threads : ConfigureCreate(t)
    \/ \E t \in Threads : ConfigureCall(t)
    \/ \E t \in Threads : ConfigureFinish(t)
    \/ \E t \in Threads : ConfigureExit(t)
    \/ \E t \in Threads : ResetEnter(t)
    \/ \E t \in Threads : ResetContainer(t)
    \/ \E t \in Threads : ResetFlag(t)
    \/ \E t \in Threads : ResetExit(t)
    \/ \E t \in Threads : GetContainer(t)
    \/ \E t \in Callers : Passthrough(t, "resolve", << "A", NoKey >>, 0)
    \/ \E t \in Callers :
           Passthrough(t, "resolve_keyed", << "A", "k1" >>, 0)
    \/ \E t \in Callers : Passthrough(t, "try_resolve", << "C", NoKey >>, 0)
    \/ \E t \in Callers :
           Passthrough(t, "try_resolve_keyed", << "A", "k1" >>, 0)
    \/ \E t \in Callers : Passthrough(t, "create_scope", NoCall, 0)
    \/ \E t \in Callers, scope \in 0..Len(scopes) :
           Passthrough(t, "begin_scope", NoCall, scope)
    \/ \E t \in Callers : Passthrough(t, "end_scope", NoCall, 0)
    \/ \E t \in Threads : GetContainerCheck(t)
    \/ \E t \in Threads : GetContainerReturn(t)
    \/ \E t \in Threads : ThreadStep(t)
    \/ \E t \in Threads : ThreadScopeStep(t)
    \/ \E t \in Threads : ThreadEndStep(t)
    \/ \E t \in Threads : ThreadReturn(t)

ProviderSpec == Init /\ [][ProviderNext]_vars

\* A web application: its lifespan configures the provider once, its
\* handlers take a Scoped service C and a service B that is not
\* registered through get_scoped_service and the keyed Scoped service
\* (C, k1) through get_keyed_scoped_service, and two requests are in
\* flight at a time.
RequestNext ==
    \/ ~is_configured(provider) /\ ConfigureEnter(1, "configure_web")
    \/ ConfigureCheck(1)
    \/ ConfigureCreate(1)
    \/ ConfigureCall(1)
    \/ ConfigureFinish(1)
    \/ ConfigureExit(1)
    \/ ThreadReturn(1)
    \/ \E q \in Requests : RequestArrives(q)
    \/ \E q \in Requests, p \in {<< "C", NoKey >>, << "C", "k1" >>,
                                   << "B", NoKey >>} :
           ScopedDependency(q, p[1], p[2])
    \/ \E q \in Requests : GetContainerCheck(q)
    \/ \E q \in Requests : GetContainerReturn(q)
    \/ \E q \in Requests : ThreadStep(q)
    \/ \E q \in Requests : ThreadScopeStep(q)
    \/ \E q \in Requests : ThreadEndStep(q)
    \/ \E q \in Requests : DependencyStep(q)
    \/ \E q \in Requests : HandlerFails(q)
    \/ \E q \in Requests : RequestResponds(q)
    \/ \E q \in Requests : CleanupSend(q)
    \/ \E q \in Requests : CleanupReturn(q)

RequestSpec == Init /\ [][RequestNext]_vars

\* An application with a factory whose body calls the container itself
\* (make_locating resolves the keyed pair (B, k1)), registered for a
\* parameter of a class that lies on a dependency cycle, and without it.
ReentryRegistrations ==
    { << "A", "NeedsBC", TRANSIENT >>, << "A", "NeedsB", TRANSIENT >>,
      << "C", "NeedsA", TRANSIENT >>, << "C", "Leaf", SINGLETON >> }

ReentryNext ==
    \/ \E g \in ReentryRegistrations : Register(g[1], g[2], g[3])
    \/ RegisterFactory("B", "make_locating", TRANSIENT)
    \/ RegisterKeyed("B", "k1", "Leaf", SINGLETON)
    \/ \E s \in {"A", "B"} : Resolve(s)
    \/ TryResolve("A")

ReentrySpec == Init /\ [][ReentryNext]_vars

\* An application whose classes have constructor parameters with default
\* values: their types are registered unkeyed (to an instance, to a class
\* whose constructor raises, to a class on a cycle), only under a key, or
\* not at all.
OptionalRegistrations ==
    { << "A", "NeedsBOptionalC", TRANSIENT >>, << "A", "OptionalC", TRANSIENT >>,
      << "C", "Failing", TRANSIENT >>, << "C", "NeedsA", TRANSIENT >> }

OptionalNext ==
    \/ \E g \in OptionalRegistrations : Register(g[1], g[2], g[3])
    \/ RegisterInstance("B", Instance(1))
    \/ RegisterInstance("C", Instance(2))
    \/ RegisterKeyedInstance("C", "k1", Instance(2))
    \/ Resolve("A")
    \/ GetAllServices("A")
    \/ Clear

OptionalSpec == Init /\ [][OptionalNext]_vars

\* An application whose threads configure and reset the ServiceProvider
\* while other threads are inside get_container.
GetNext ==
    \/ \E t \in Threads, func \in {"configure_app", "configure_failing"} :
           ConfigureEnter(t, func)
    \/ \E t \in Threads : ConfigureCheck(t)
    \/ \E t \in Threads : ConfigureCreate(t)
    \/ \E t \in Threads : ConfigureCall(t)
    \/ \E t \in Threads : ConfigureFinish(t)
    \/ \E t \in Threads : ConfigureExit(t)
    \/ \E t \in Threads : ResetEnter(t)
    \/ \E t \in Threads : ResetContainer(t)
    \/ \E t \in Threads : ResetFlag(t)
    \/ \E t \in Threads : ResetExit(t)
    \/ \E t \in Threads : GetContainer(t)
    \/ \E t \in Threads : GetContainerCheck(t)
    \/ \E t \in Threads : GetContainerReturn(t)
    \/ \E t \in Threads : ThreadReturn(t)

GetSpec == Init /\ [][GetNext]_vars

\* An application with a Singleton service A whose class needs the Scoped
\* service C; it resolves inside and outside scopes and ends them.
CaptiveNext ==
    \/ Register("A", "NeedsC", SINGLETON)
    \/ Register("C", "Leaf", SCOPED)
    \/ \E s \in {"A", "C"} : Resolve(s)
    \/ TryResolve("A")
    \/ BeginScope(0)
    \/ EndScope
    \/ Clear

CaptiveSpec == Init /\ [][CaptiveNext]_vars

(***************************************************************************)
(* The properties.                                                         *)
(***************************************************************************)
ResolveCalls == {"resolve", "resolve_keyed"}
TryResolveCalls == {"try_resolve", "try_resolve_keyed"}
LastPair == << last.service_type, last.key >>

\* The last call was a resolve call that returned an instance for a pair
\* registered with the lifetime.
Resolved(lifetime) ==
    /\ last.op \in ResolveCalls \cup TryResolveCalls
    /\ last.kind = OK
    /\ last.lifetime = lifetime

\* The dict holds the instance under the pair.
Holds(d, pair, instance) == DictHas(d, pair) /\ DictGet(d, pair) = instance

\* C1 as stated: for a pair registered as Singleton, all the resolve and
\* resolve_keyed calls between two clear() have returned one and the same
\* instance, and the producer has run at most once for the pair.
SingletonIdentical ==
    \A p \in Pairs :
        /\ Cardinality(singleton_returned[p]) <= 1
        /\ singleton_productions[p].runs <= 1

\* C1: for a pair registered as Singleton, all the resolve and
\* resolve_keyed calls between two clear() return one and the same
\* instance; the object of a producer is stored for the pair at most once,
\* and while the cache holds an instance for the pair no call runs its
\* producer; a run that raises stores nothing, so that the producer runs
\* again in the next call, and in a call in which it runs it raises or its
\* object is in the cache afterwards.
SingletonOnceCached ==
    [][\A p \in Pairs :
         /\ Cardinality(singleton_returned'[p]) <= 1
         /\ singleton_productions'[p].stored <= 1
         /\ DictHas(singleton_instances, p) => ~InSeq(p, last'.runs)
         /\ (InSeq(p, last'.runs) /\ last'.op \in ResolveCalls
                                  /\ last'.kind = OK)
              => /\ DictHas(singleton_instances', p)
                 /\ DictGet(singleton_instances', p).id >= next_id
                 /\ singleton_productions'[p].stored
                      = singleton_productions[p].stored + 1
         /\ (~DictHas(singleton_instances, p)
               /\ last'.op \in ResolveCalls
               /\ last'.kind = DomainError /\ last'.failures = 1
               /\ << last'.service_type, last'.key >> = p
               /\ InSeq(p, last'.runs))
              => /\ ~DictHas(singleton_instances', p)
                 /\ singleton_productions'[p].stored
                      = singleton_productions[p].stored
      ]_vars

\* The producer of a Singleton pair has raised, has run again in a later
\* call for the pair, and the instance of that run has been returned
\* again, from the cache.
SingletonOnceCachedWitness ==
    /\ Resolved(SINGLETON)
    /\ last.op \in ResolveCalls
    /\ last.created = 0
    /\ last.value.id > 0
    /\ last.runs = << >>
    /\ singleton_returned[LastPair] = {last.value.id}
    /\ singleton_productions[LastPair] = [stored |-> 1, runs |-> 2]

\* C2: a resolve call for a pair registered as Transient returns an
\* instance constructed by that very call (so it differs from every instance
\* returned before), and the instance is stored neither in the singleton
\* cache nor in the current scope.
TransientFresh ==
    Resolved(TRANSIENT) =>
        /\ last.created >= 1
        /\ last.value.id = next_id - 1
        /\ ~Holds(singleton_instances, LastPair, last.value)
        /\ current_scope # 0 =>
             ~Holds(scopes[current_scope], LastPair, last.value)

\* A second Transient instance has been returned while a scope is current.
TransientFreshWitness ==
    /\ Resolved(TRANSIENT)
    /\ last.value.id >= 2
    /\ current_scope # 0

\* C3 as stated: for a pair registered as Scoped, the resolve calls made
\* while one scope is current (and not yet disposed) have returned one and
\* the same instance, and no resolve call returns an instance that a scope
\* held when end_scope() or clear() disposed it.
ScopedIdentical ==
    /\ \A i \in 1..Len(scoped_returned), p \in Pairs :
           Cardinality(scoped_returned[i][p]) <= 1
    /\ Resolved(SCOPED) => last.value.id \notin ended_instances

\* C3: a resolve call for a pair registered as Scoped that returns, returns
\* the instance the current scope holds for the pair, whether a resolve call
\* constructed it or the owner of the scope stored it with
\* set_scoped_instance, and constructs nothing; when the scope holds none
\* it returns an instance it has constructed, which no scope has held
\* before, and the current scope holds it afterwards.
ScopedFromCurrentScope ==
    [][(/\ last'.op \in ResolveCalls
        /\ last'.lifetime = SCOPED
        /\ last'.kind = OK)
       => /\ current_scope # 0
          /\ current_scope' = current_scope
          /\ Holds(scopes'[current_scope],
                   << last'.service_type, last'.key >>, last'.value)
          /\ IF DictHas(scopes[current_scope],
                        << last'.service_type, last'.key >>)
               THEN /\ last'.created = 0
                    /\ last'.value = DictGet(scopes[current_scope],
                                   << last'.service_type, last'.key >>)
                    /\ scopes' = scopes
               ELSE /\ last'.created >= 1
                    /\ last'.value.id >= next_id
                    /\ last'.value.id \notin ended_instances
      ]_vars

\* A scope has returned the instance it constructed and, after its owner
\* stored another one for the pair, that one without constructing.
ScopedFromCurrentScopeWitness ==
    /\ Resolved(SCOPED)
    /\ last.created = 0
    /\ Cardinality(scoped_returned[current_scope][LastPair]) = 2
    /\ Holds(scopes[current_scope], LastPair, last.value)

\* The pair (service_type, None) is registered as Transient to a class
\* whose constructor has exactly one parameter, of the type required and
\* without default.
Requires(service_type, required) ==
    /\ is_registered(Container, service_type, NoKey)
    /\ LET registration == DictGet(registrations, << service_type, NoKey >>)
       IN  /\ registration.strategy = TYPE_TO_TYPE
           /\ registration.lifetime = TRANSIENT
           /\ Parameters(registration.implementation_type)
                = << Param(required, FALSE) >>

\* The pair (service_type, None) is registered as Transient to a class
\* without constructor parameters.
Standalone(service_type) ==
    /\ is_registered(Container, service_type, NoKey)
    /\ LET registration == DictGet(registrations, << service_type, NoKey >>)
       IN  /\ registration.strategy = TYPE_TO_TYPE
           /\ registration.lifetime = TRANSIENT
           /\ Parameters(registration.implementation_type) = << >>
           /\ ~Raises(registration.implementation_type)

\* C4: a resolve call for a pair registered as Scoped, made while no scope
\* is current, raises ScopeException and constructs nothing.
ScopedNeedsScope ==
    (/\ last.op \in ResolveCalls
     /\ last.lifetime = SCOPED
     /\ last.scope = 0)
    => (last.kind = ScopeException /\ last.created = 0)

\* C5: when s is registered to a class that needs t and t to a class that
\* needs s, resolve(s) raises CircularDependencyException with both keys in
\* the dependency chain, and a resolve of an unrelated registered service
\* then succeeds.
CycleReported ==
    \A s, t \in ServiceTypes :
        (/\ s # t
         /\ last.op = "resolve"
         /\ last.service_type = s
         /\ Requires(s, t)
         /\ Requires(t, s))
        => /\ last.kind = CircularDependencyException
           /\ InSeq(<< s, NoKey >>, last.dependency_chain)
           /\ InSeq(<< t, NoKey >>, last.dependency_chain)
           /\ \A u \in ServiceTypes \ {s, t} :
                  Standalone(u) => resolve(Container, u).kind = OK

\* C6: after every resolve, resolve_keyed, try_resolve and
\* try_resolve_keyed call, whatever its outcome, the resolution stack is
\* empty.
StackEmptyAfterResolve ==
    last.op \in ResolveCalls \cup TryResolveCalls => resolution_stack = << >>

\* A resolve call has failed on a cycle of two keys and left the stack
\* empty.
StackEmptyAfterResolveWitness ==
    /\ last.op \in ResolveCalls
    /\ last.kind = CircularDependencyException
    /\ Len(last.dependency_chain) >= 3
    /\ resolution_stack = << >>

\* C7: when s is registered to a class whose constructor requires the
\* unregistered type t, resolve(s) raises ServiceNotRegisteredException
\* whose service_type is t.
MissingDependencyNamed ==
    \A s, t \in ServiceTypes :
        (/\ s # t
         /\ last.op = "resolve"
         /\ last.service_type = s
         /\ Requires(s, t)
         /\ ~is_registered(Container, t, NoKey))
        => (last.kind = ServiceNotRegisteredException /\ last.error_type = t)

\* C8: try_resolve and try_resolve_keyed of a pair that is not registered
\* return None and do not raise.
TryResolveUnregisteredNone ==
    (/\ last.op \in TryResolveCalls
     /\ ~is_registered(Container, last.service_type, last.key))
    => (last.kind = OK /\ last.value = None)

\* C9: try_resolve and try_resolve_keyed return None where resolve /
\* resolve_keyed raise ServiceNotRegisteredException, and have the outcome
\* of resolve / resolve_keyed (the value, or the exception with what it
\* carries) in every other case.
TryResolveDowngradesOnly ==
    last.op \in TryResolveCalls =>
        IF last.reference.kind = ServiceNotRegisteredException
          THEN last.kind = OK /\ last.value = None
          ELSE Outcome([kind |-> last.kind, value |-> last.value,
                        service_type |-> last.error_type,
                        dependency_chain |-> last.dependency_chain])
                 = last.reference

\* try_resolve has raised CircularDependencyException.
TryResolveDowngradesOnlyWitness ==
    /\ last.op \in TryResolveCalls
    /\ last.kind = CircularDependencyException
    /\ last.reference.kind = CircularDependencyException

\* C10: after clear(), no pair that was registered before is registered,
\* and resolve / resolve_keyed of such a pair raises
\* ServiceNotRegisteredException.
ClearedPairsUnregistered ==
    last.op = "clear" =>
        \A p \in last.cleared :
            /\ ~is_registered(Container, p[1], p[2])
            /\ resolve_keyed(Container, p[1], p[2]).kind
                 = ServiceNotRegisteredException

\* A Singleton registration of a class whose construction succeeds whenever
\* its dependency does: the class takes no parameters, or one parameter
\* whose type is registered unkeyed to a class that takes none.
Producible(registration) ==
    /\ registration.strategy = TYPE_TO_TYPE
    /\ registration.lifetime = SINGLETON
    /\ ~Raises(registration.implementation_type)
    /\ \/ Parameters(registration.implementation_type) = << >>
       \/ \E t \in ServiceTypes :
            /\ Parameters(registration.implementation_type)
                 = << Param(t, FALSE) >>
            /\ is_registered(Container, t, NoKey)
            /\ Sure([Container EXCEPT !.singleton_instances = << >>],
                    DictGet(registrations, << t, NoKey >>))

\* C11: when a service type is registered unkeyed and under two keys, each
\* with a Singleton producer that can construct, get_all_services of the
\* type returns exactly three instances, one per registration and all
\* distinct, and no two singleton cache entries hold the same constructed
\* object.
ThreeRegistrations ==
    /\ (/\ last.op = "get_all_services"
        /\ \A k \in {NoKey} \cup Keys :
             /\ is_registered(Container, last.service_type, k)
             /\ Producible(DictGet(registrations, << last.service_type, k >>)))
       => /\ Len(last.services) = 3
          /\ Cardinality({last.services[i].id : i \in 1..3}) = 3
    /\ \A i, j \in 1..Len(singleton_instances) :
         (i # j /\ singleton_instances[i].value.id > 0)
         => singleton_instances[i].value.id # singleton_instances[j].value.id

\* C12: get_all_services never raises; it returns at most one instance per
\* registration of the type, and every registration whose construction
\* cannot fail has its instance returned, whatever the other registrations
\* of the type do.
GetAllServicesSkips ==
    last.op = "get_all_services" =>
        /\ last.kind = OK
        /\ Len(last.services) <= last.attempts
        /\ Len(last.services) >= last.sure

\* get_all_services has returned an instance although the first
\* registration of the type failed to construct.
GetAllServicesSkipsWitness ==
    /\ last.op = "get_all_services"
    /\ last.service_type = "A"
    /\ Len(last.services) >= 1
    /\ Len(last.services) < last.attempts
    /\ ~Sure(Container, get_registrations_for_type(registrations, "A")[1])

\* C13: resolve_keyed of a pair that is not registered raises
\* ServiceNotRegisteredException, also when the type is registered unkeyed
\* or under another key; resolve of a type that has only keyed
\* registrations raises it too; and a resolve call succeeds only for a
\* registered pair.
KeyedEntriesDistinct ==
    /\ (/\ last.op = "resolve_keyed"
        /\ ~is_registered(Container, last.service_type, last.key))
       => /\ last.kind = ServiceNotRegisteredException
          /\ last.error_type = last.service_type
    /\ (/\ last.op = "resolve"
        /\ ~is_registered(Container, last.service_type, NoKey)
        /\ \E k \in Keys : is_registered(Container, last.service_type, k))
       => /\ last.kind = ServiceNotRegisteredException
          /\ last.error_type = last.service_type
    /\ (last.op \in ResolveCalls /\ last.kind = OK)
       => is_registered(Container, last.service_type, last.key)

RegisterCalls ==
    {"register", "register_keyed", "register_instance",
     "register_keyed_instance", "register_factory", "register_keyed_factory"}

\* The registration holds what the register* call was given.
Written(registration, pair, written) ==
    /\ registration.service_type = pair[1]
    /\ registration.key = pair[2]
    /\ registration.lifetime = Default(written.lifetime)
    /\ registration.instance = written.instance
    /\ registration.factory = written.factory
    /\ registration.implementation_type =
         IF /\ written.implementation_type = NoType
            /\ written.instance = None
            /\ written.factory = NoFactory
           THEN pair[1]
           ELSE written.implementation_type

\* C14: every register* call leaves the registry with exactly one
\* registration per pair; the registration of the pair of the call is the
\* one the call was given, and the registrations of the other pairs are
\* the ones the registry held before.
LastWriteWins ==
    [][last'.op \in RegisterCalls =>
         /\ \A p \in Pairs :
              Cardinality({i \in 1..Len(registrations') :
                             registrations'[i].key = p}) <= 1
         /\ DictHas(registrations', << last'.service_type, last'.key >>)
         /\ Written(DictGet(registrations', << last'.service_type, last'.key >>),
                    << last'.service_type, last'.key >>, last'.written)
         /\ \A q \in Pairs \ {<< last'.service_type, last'.key >>} :
              /\ DictHas(registrations', q) = DictHas(registrations, q)
              /\ DictHas(registrations, q)
                 => DictGet(registrations', q) = DictGet(registrations, q)]_vars

\* A register* call has replaced the registration of a pair that was
\* registered before another pair that is still registered.
LastWriteWinsWitness ==
    /\ last.op \in RegisterCalls
    /\ Len(registrations) >= 2
    /\ registrations[1].key = << last.service_type, last.key >>
    /\ Written(registrations[1].value, registrations[1].key, last.written)

\* C15: scope.dispose() calls the dispose() of every instance the scope
\* holds that has one, also when the dispose() of another instance raises,
\* and leaves the scope holding nothing.
DisposeBestEffort ==
    last.op = "dispose" =>
        /\ last.held \subseteq disposed
        /\ scopes[last.scope] = << >>

\* C16: end_scope() leaves the container without current scope and the
\* scope that was current disposed and empty; without a current scope it
\* changes nothing; and a Scoped resolution made while no scope is current
\* raises ScopeException.
EndScopeLeavesNoScope ==
    /\ last.op = "end_scope" =>
         /\ current_scope = 0
         /\ last.scope # 0 => /\ scopes[last.scope] = << >>
                              /\ last.held \subseteq disposed
         /\ last.scope = 0 => ~last.changed
    /\ (/\ last.op \in ResolveCalls
        /\ last.lifetime = SCOPED
        /\ last.scope = 0)
       => last.kind = ScopeException

\* C17: begin_scope makes the given scope, or a new and empty one, the
\* current scope; it leaves what every existing scope holds as it was and
\* disposes nothing; and a Scoped resolution that returns, in a scope that
\* already holds an instance for the pair, returns that instance and
\* constructs nothing.
BeginScopeKeepsPrevious ==
    [][/\ last'.op = "begin_scope" =>
            /\ current_scope' =
                 IF last'.scope = 0 THEN Len(scopes) + 1 ELSE last'.scope
            /\ last'.scope = 0 => scopes'[current_scope'] = << >>
            /\ \A i \in 1..Len(scopes) : scopes'[i] = scopes[i]
            /\ disposed' = disposed
            /\ UNCHANGED << registrations, singleton_instances >>
       /\ (/\ last'.op \in ResolveCalls
           /\ last'.lifetime = SCOPED
           /\ last'.kind = OK
           /\ current_scope # 0
           /\ DictHas(scopes[current_scope],
                      << last'.service_type, last'.key >>))
          => /\ last'.created = 0
             /\ last'.value = DictGet(scopes[current_scope],
                                      << last'.service_type, last'.key >>)
      ]_vars

\* A Scoped resolution has returned the instance of the first scope after
\* a second scope had been made current, had constructed its own instance
\* and the first scope had been made current again; nothing is disposed.
BeginScopeKeepsPreviousWitness ==
    /\ Resolved(SCOPED)
    /\ last.created = 0
    /\ current_scope = 1
    /\ Len(scopes) >= 2
    /\ \E j \in 1..Len(scopes[2]) : scopes[2][j].value.id > last.value.id
    /\ disposed = {}

\* C18: clear() leaves the registry empty, the singleton cache empty, no
\* current scope, and the scope that was current disposed and empty.
ClearResets ==
    last.op = "clear" =>
        /\ registrations = << >>
        /\ singleton_instances = << >>
        /\ current_scope = 0
        /\ last.scope # 0 => /\ scopes[last.scope] = << >>
                             /\ last.held \subseteq disposed

\* One step of a path along required constructor parameters, and the
\* types that lie on a cycle of such steps.
RECURSIVE Reaches(_, _, _)
Reaches(s, t, n) ==
    \/ Requires(s, t)
    \/ /\ n > 1
       /\ \E u \in ServiceTypes : Requires(s, u) /\ Reaches(u, t, n - 1)
OnCycle(s) == Reaches(s, s, Cardinality(ServiceTypes))

\* C19: every resolve call ends with an instance or with an exception; the
\* calls of _resolve_keyed_internal nested in each other are at most one
\* more than the registered pairs; a call that ends with
\* CircularDependencyException has nested at most one more than the
\* distinct keys of its dependency chain; and resolve of a type on a cycle
\* of required dependencies ends with CircularDependencyException.
ResolveBounded ==
    last.op \in ResolveCalls \cup TryResolveCalls =>
        /\ last.kind \in {OK, ServiceNotRegisteredException,
                          CircularDependencyException,
                          InvalidRegistrationException, ScopeException,
                          DomainError}
        /\ last.steps >= 1
        /\ last.steps <= Len(registrations) + 1
        /\ last.kind = CircularDependencyException =>
             last.steps <= Cardinality({last.dependency_chain[i] :
                                 i \in 1..Len(last.dependency_chain)}) + 1
        /\ (last.key = NoKey /\ OnCycle(last.service_type))
           => last.kind = CircularDependencyException

\* C20: a resolve call that ends with the error of a constructor or
\* factory has run exactly one producer that raised, has left the registry
\* as it was, and has stored nothing for the requested pair in the
\* singleton cache or in the current scope; try_resolve does the same; and
\* no cache ever holds an object of a producer that raises.
FailureNotRetried ==
    [][/\ (/\ last'.op \in ResolveCalls \cup TryResolveCalls
           /\ last'.kind = DomainError)
          => /\ last'.failures = 1
             /\ last'.value = None
             /\ registrations' = registrations
             /\ DictHas(singleton_instances',
                        << last'.service_type, last'.key >>)
                  = DictHas(singleton_instances,
                            << last'.service_type, last'.key >>)
             /\ current_scope' = current_scope
             /\ current_scope # 0
                => DictHas(scopes'[current_scope],
                           << last'.service_type, last'.key >>)
                     = DictHas(scopes[current_scope],
                               << last'.service_type, last'.key >>)
       /\ \A i \in 1..Len(singleton_instances') :
            ~Raises(singleton_instances'[i].value.cls)
       /\ \A j \in 1..Len(scopes') :
            \A i \in 1..Len(scopes'[j]) : ~Raises(scopes'[j][i].value.cls)
      ]_vars

\* A resolve of a Scoped registration, in a scope, has ended with the
\* error of the factory of its Singleton dependency, and neither pair has
\* an instance stored.
FailureNotRetriedWitness ==
    /\ last.op = "resolve"
    /\ last.service_type = "A"
    /\ last.kind = DomainError
    /\ last.lifetime = SCOPED
    /\ last.steps = 2
    /\ current_scope # 0
    /\ scopes[current_scope] = << >>
    /\ LifetimeOf(Container, << "C", NoKey >>) = SINGLETON
    /\ ~DictHas(singleton_instances, << "C", NoKey >>)

\* The thread's call has ended and its caller has, or is about to get, the
\* outcome.
Ended_(t) == threads[t].pc \in {"clear", "done"}

\* C21: when two threads resolve the same Singleton key at the same time,
\* the producer of the key runs in at most one of the two calls and both
\* calls return the same instance.
ConcurrentSingletonOnce ==
    \A t \in Threads : \A u \in Threads \ {t} :
        (/\ Ended_(t) /\ Ended_(u)
         /\ threads[t].service_key = threads[u].service_key
         /\ LifetimeOf(Container, threads[t].service_key) = SINGLETON
         /\ threads[t].outcome.kind = OK
         /\ threads[u].outcome.kind = OK)
        => /\ threads[t].outcome.value = threads[u].outcome.value
           /\ ~(/\ \E p \in threads[t].created : p[1] = threads[t].service_key
                /\ \E p \in threads[u].created : p[1] = threads[u].service_key)

\* C22: when threads resolve at the same time and no class depends on
\* itself, no call ends with CircularDependencyException, and the key a
\* frame has pushed stays on the resolution stack until the frame's own
\* finally clause.
ConcurrentStacksIsolated ==
    \A t \in Threads :
        /\ Ended_(t) => threads[t].outcome.kind # CircularDependencyException
        /\ \A i \in 1..Len(threads[t].frames) :
             threads[t].frames[i].pc \in
                 {"lookup", "create", "cached", "scope", "scoped",
                  "produce", "store", "set", "finally", "top", "pop"}
             => InSeq(threads[t].frames[i].service_key, resolution_stack)

\* C23: a ServiceRegistration keeps the arguments it was constructed with
\* and has the strategy of the first argument that is given, in the order
\* instance, factory, implementation type; when none is given its
\* implementation type is the service type and its strategy TYPE_TO_TYPE.
StrategyPrecedence ==
    last.op = "ServiceRegistration" =>
        /\ last.value.service_type = last.service_type
        /\ last.value.key = last.key
        /\ last.value.lifetime = last.written.lifetime
        /\ last.value.instance = last.written.instance
        /\ last.value.factory = last.written.factory
        /\ last.value.strategy =
             IF last.written.instance # None THEN TYPE_TO_INSTANCE
             ELSE IF last.written.factory # NoFactory THEN TYPE_TO_FACTORY
             ELSE TYPE_TO_TYPE
        /\ last.value.implementation_type =
             IF /\ last.written.instance = None
                /\ last.written.factory = NoFactory
                /\ last.written.implementation_type = NoType
               THEN last.service_type
               ELSE last.written.implementation_type

\* A ServiceRegistration has been constructed from an instance, a factory
\* and an implementation type together, and has the instance's strategy.
StrategyPrecedenceWitness ==
    /\ last.op = "ServiceRegistration"
    /\ last.written.instance # None
    /\ last.written.factory # NoFactory
    /\ last.written.implementation_type # NoType
    /\ last.value.strategy = TYPE_TO_INSTANCE

\* C24: a register* call returns normally, constructs no object, and leaves
\* the singleton cache, the current scope, what every scope holds, the
\* resolution stack and the disposed instances as they were.
RegisterWritesOnly ==
    [][last'.op \in RegisterCalls =>
         /\ last'.kind = OK
         /\ last'.created = 0
         /\ UNCHANGED << next_id, singleton_instances, current_scope, scopes,
                         resolution_stack, disposed >>]_vars

\* A register* call has been made on a container with a cached singleton,
\* a current scope that holds an instance, and a key left on the
\* resolution stack.
RegisterWritesOnlyWitness ==
    /\ last.op \in RegisterCalls
    /\ singleton_instances # << >>
    /\ current_scope # 0
    /\ scopes[current_scope] # << >>
    /\ resolution_stack # << >>

InstanceCalls == {"register_instance", "register_keyed_instance"}

\* C25: after a register* call that was given no lifetime, by any of the
\* six methods, the registration of the pair has the lifetime Transient.
DefaultTransient ==
    (/\ last.op \in RegisterCalls
     /\ last.op \in InstanceCalls \/ last.written.lifetime = Omitted)
    => DictGet(registrations, LastPair).lifetime = TRANSIENT

\* C25, amended: after register, register_keyed, register_factory or
\* register_keyed_factory without a lifetime the registration of the pair
\* has the lifetime Transient; after register_instance or
\* register_keyed_instance, which take no lifetime, it has Singleton.
DefaultTransientUnlessInstance ==
    /\ (/\ last.op \in RegisterCalls \ InstanceCalls
        /\ last.written.lifetime = Omitted)
       => DictGet(registrations, LastPair).lifetime = TRANSIENT
    /\ last.op \in InstanceCalls
       => DictGet(registrations, LastPair).lifetime = SINGLETON

\* register_keyed_factory has been called without a lifetime on a container
\* whose unkeyed registration of the type was made by register_instance.
DefaultTransientUnlessInstanceWitness ==
    /\ last.op = "register_keyed_factory"
    /\ last.written.lifetime = Omitted
    /\ DictGet(registrations, LastPair).lifetime = TRANSIENT
    /\ DictHas(registrations, << last.service_type, NoKey >>)
    /\ DictGet(registrations, << last.service_type, NoKey >>).strategy
         = TYPE_TO_INSTANCE
    /\ DictGet(registrations, << last.service_type, NoKey >>).lifetime
         = SINGLETON

\* The configure call of a thread ends in this step, and it is rejected.
ConfigureEnds(t) ==
    /\ provider.calls[t].pc \in Configures
    /\ threads'[t].pc = "done"
Rejected(t) ==
    /\ ConfigureEnds(t)
    /\ threads'[t].outcome.kind = DIException

\* A rejected configure call finds the provider configured, has not run its
\* configuration function, and leaves the container and its registrations
\* as they were.
RejectedKeeps ==
    \A t \in Threads :
        Rejected(t) => /\ provider._is_configured
                       /\ provider.calls[t].pc = "locked"
                       /\ provider'._container = provider._container
                       /\ provider'._is_configured
                       /\ UNCHANGED << registrations, singleton_instances,
                                       current_scope, scopes >>

\* C26: between two resets at most one configure call succeeds; when a
\* configure call ends, sequential or concurrent, it has succeeded or it
\* has raised DIException, and exactly one call has succeeded; and a
\* rejected call leaves the container and its registrations as they were.
ConfigureExactlyOnce ==
    [][/\ provider'.succeeded <= 1
       /\ \A t \in Threads :
            ConfigureEnds(t)
              => /\ threads'[t].outcome.kind \in {OK, DIException}
                 /\ provider'.succeeded = 1
       /\ RejectedKeeps]_vars

\* The configuration function has no raise statement.
Returning(func) ==
    \A i \in 1..Len(configuration_func(func)) :
        configuration_func(func)[i].call # "raise"

\* C26, amended: between two resets at most one configure call succeeds;
\* a call whose configuration function raises ends with that error and
\* leaves the provider unconfigured; a call whose function returns ends
\* with success or with DIException, and then exactly one call has
\* succeeded; and a rejected call leaves the container and its
\* registrations as they were.
ConfigureOnce ==
    [][/\ provider'.succeeded <= 1
       /\ \A t \in Threads :
            ConfigureEnds(t)
              => LET kind == threads'[t].outcome.kind
                     returns == Returning(provider.calls[t].func)
                 IN  /\ kind \in {OK, DIException, DomainError}
                     /\ kind = DomainError
                          => ~returns /\ ~is_configured(provider')
                     /\ kind = OK => returns
                     /\ kind \in {OK, DIException}
                          => provider'.succeeded = 1
       /\ RejectedKeeps]_vars

\* One thread's configure call has succeeded and the other thread's call
\* has been rejected; the container has the registrations of the first.
ConfigureOnceWitness ==
    /\ threads[1].pc = "done" /\ threads[1].method = "configure"
    /\ threads[1].outcome.kind = OK
    /\ threads[2].pc = "done" /\ threads[2].method = "configure"
    /\ threads[2].outcome.kind = DIException
    /\ provider.succeeded = 1
    /\ is_registered(Container, "C", NoKey)

ProviderCalls ==
    ResolveCalls \cup TryResolveCalls
      \cup {"get_container", "create_scope", "begin_scope", "end_scope"}

\* Thread t calls a method that begins with get_container in this step.
Begins(t) ==
    /\ threads[t].pc = "idle"
    /\ threads'[t].pc # "idle"
    /\ threads'[t].method \in ProviderCalls

\* The get_container call of thread t ends in this step: it raises at line
\* 69 or returns at line 74.
GetContainerEnds(t) ==
    /\ provider.calls[t].pc \in {"check", "return"}
    /\ provider'.calls[t].pc = "idle"

\* No configure call has succeeded since the start or the last reset, and
\* no thread is inside reset.
Unconfigured(p) ==
    /\ p.succeeded = 0
    /\ \A u \in Threads : p.calls[u].pc \notin Resets

\* C27: while ServiceProvider is not configured (no configure call has
\* succeeded since the start or the last reset), get_container and every
\* passthrough method raise ContainerNotConfiguredException, whether the
\* call begins or its get_container ends in that state, and
\* is_configured() is false; once a configure call has succeeded,
\* is_configured() is true.
NotConfiguredRaises ==
    [][/\ \A t \in Threads :
            /\ (Begins(t) /\ Unconfigured(provider))
                 => /\ threads'[t].pc = "done"
                    /\ threads'[t].outcome.kind
                         = ContainerNotConfiguredException
                    /\ UNCHANGED << registrations, singleton_instances,
                                    current_scope, scopes, next_id >>
            /\ (GetContainerEnds(t) /\ Unconfigured(provider))
                 => /\ threads'[t].pc = "done"
                    /\ threads'[t].outcome.kind
                         = ContainerNotConfiguredException
       /\ Unconfigured(provider') => ~is_configured(provider')
       /\ provider'.succeeded > 0 => is_configured(provider')]_vars

\* The part of C27 about calls that begin while the provider is not
\* configured: such a call raises ContainerNotConfiguredException on its
\* first read and leaves the container alone.
NotConfiguredRaisesAtCall ==
    [][\A t \in Threads :
         (Begins(t) /\ Unconfigured(provider))
           => /\ threads'[t].pc = "done"
              /\ threads'[t].outcome.kind = ContainerNotConfiguredException
              /\ UNCHANGED << registrations, singleton_instances,
                              current_scope, scopes, next_id >>]_vars

\* C28: a scope that get_scoped_service began for a request is always
\* ended: when the request has failed (its handler or a later dependency
\* raised and the exception has left the integration layer), an end_scope
\* call has ended the scope the request began.
BegunScopeEndedOnFailure ==
    \A q \in Requests :
        (requests[q].phase = "failed" /\ requests[q].began # 0)
          => \E o \in Requests : requests[q].began \in requests[o].ended

\* C29: one scope per request: the Scoped resolutions of a request are
\* served from the scope that was created for it, and while a request that
\* began a scope is in progress, no other request that uses
\* get_scoped_service has ended that scope.
OneScopePerRequest ==
    \A q \in Requests :
        /\ requests[q].served \subseteq {requests[q].began}
        /\ (requests[q].phase = "running" /\ requests[q].began # 0)
             => \A o \in Requests \ {q} :
                    requests[o].began # 0
                      => requests[q].began \notin requests[o].ended

\* The producer of the unkeyed registration of service_type has a parameter
\* annotated with the type needed; and a path of such steps.
Needs(service_type, needed) ==
    /\ is_registered(Container, service_type, NoKey)
    /\ LET registration == DictGet(registrations, << service_type, NoKey >>)
           parameters ==
               IF registration.strategy = TYPE_TO_TYPE
                 THEN Parameters(registration.implementation_type)
               ELSE IF registration.strategy = TYPE_TO_FACTORY
                 THEN Parameters(registration.factory)
               ELSE << >>
       IN  \E i \in 1..Len(parameters) : parameters[i].annotation = needed
RECURSIVE NeedsPath(_, _, _)
NeedsPath(s, t, n) ==
    \/ Needs(s, t)
    \/ /\ n > 1
       /\ \E u \in ServiceTypes : Needs(s, u) /\ NeedsPath(u, t, n - 1)

\* The dependency graph of the unkeyed pair of a service type is acyclic:
\* neither the type nor a type it needs, directly or through others, needs
\* itself.
Acyclic(service_type) ==
    \A t \in ServiceTypes :
        (t = service_type
           \/ NeedsPath(service_type, t, Cardinality(ServiceTypes)))
          => ~NeedsPath(t, t, Cardinality(ServiceTypes))

\* C30: between the public calls, get_all_services among them, the
\* resolution stack is empty; and a resolve call for an unkeyed pair whose
\* dependency graph is acyclic does not raise CircularDependencyException.
StackEmptyBetweenCalls ==
    /\ resolution_stack = << >>
    /\ (last.op \in {"resolve", "try_resolve"} /\ Acyclic(last.service_type))
         => last.kind # CircularDependencyException

\* C31: a resolve call that returns an instance for a pair registered as
\* Singleton returns an instance that the registration now stored under the
\* pair has produced: the registered instance itself, an object of the
\* registered implementation type, or an object made by the registered
\* factory; also when the pair was registered again after its instance was
\* cached.
CachedFromCurrentRegistration ==
    (last.op \in ResolveCalls /\ last.kind = OK /\ last.lifetime = SINGLETON)
      => LET registration == DictGet(registrations, LastPair)
         IN  /\ registration.strategy = TYPE_TO_INSTANCE
                  => last.value = registration.instance
             /\ registration.strategy = TYPE_TO_TYPE
                  => last.value.cls = registration.implementation_type
             /\ registration.strategy = TYPE_TO_FACTORY
                  => last.value.cls = registration.factory

\* C32: a resolve call made on the container by a factory or constructor
\* that runs inside another resolution does not make the outer resolution
\* lose its keys: no resolve call ends in the interpreter's RecursionError,
\* its nested _resolve_keyed_internal calls are at most one more per
\* registered pair, and when the requested type depends on itself through
\* declared parameters the call does not return an instance.
ReentrantCycleDetected ==
    last.op \in ResolveCalls \cup TryResolveCalls =>
        /\ last.kind # RecursionError
        /\ last.steps <= Len(registrations) + 1
        /\ (last.key = NoKey /\ ~Acyclic(last.service_type))
             => last.value = None

\* C33: the dependency chain of a CircularDependencyException is the
\* resolution stack of the call in push order: it starts with the pair the
\* top-level call asked for, it ends with the repeated pair, and that pair
\* occurs in it before.
ChainFromRequestedKey ==
    (/\ last.op \in ResolveCalls \cup TryResolveCalls
     /\ last.kind = CircularDependencyException)
    => /\ Len(last.dependency_chain) >= 2
       /\ last.dependency_chain[1] = LastPair
       /\ \E i \in 1..(Len(last.dependency_chain) - 1) :
              last.dependency_chain[i]
                = last.dependency_chain[Len(last.dependency_chain)]

\* C34: push and pop on the resolution stack are balanced: every call of
\* _resolve_keyed_internal made during a resolve call that returned a value
\* or raised another error than CircularDependencyException has left the
\* stack as it was when the call was entered.
PushPopBalanced ==
    last.op \in ResolveCalls \cup TryResolveCalls => last.unbalanced = 0

\* The value is one that the registration produces: its instance, or an
\* object of its implementation type or of its factory.
ProducedBy(registration, value) ==
    /\ registration.strategy = TYPE_TO_INSTANCE => value = registration.instance
    /\ registration.strategy = TYPE_TO_TYPE
         => value.cls = registration.implementation_type
    /\ registration.strategy = TYPE_TO_FACTORY
         => value.cls = registration.factory

\* The keyed pair is registered to a class whose constructor has one
\* parameter, of type d and without default, and no instance is cached for
\* it: a resolve_keyed call for it constructs.
KeyedNeeds(pair, d) ==
    /\ pair[2] # NoKey
    /\ DictHas(registrations, pair)
    /\ LET registration == DictGet(registrations, pair)
       IN  /\ registration.strategy = TYPE_TO_TYPE
           /\ registration.lifetime # SCOPED
           /\ ~Raises(registration.implementation_type)
           /\ Parameters(registration.implementation_type)
                = << Param(d, FALSE) >>
    /\ ~DictHas(singleton_instances, pair)

\* C35: dependencies are resolved unkeyed: a resolve_keyed call that
\* constructs the registration of (s, k), whose class needs d, raises
\* ServiceNotRegisteredException for d when (d, None) is not registered,
\* whatever is registered under keys, and when (d, None) is registered to a
\* producer that cannot fail it returns an object built from what that
\* registration produces, also when d is s.
DependenciesUnkeyed ==
    [][\A d \in ServiceTypes :
         (/\ last'.op = "resolve_keyed"
          /\ KeyedNeeds(<< last'.service_type, last'.key >>, d))
         => /\ ~is_registered(Container, d, NoKey)
                 => /\ last'.kind = ServiceNotRegisteredException
                    /\ last'.error_type = d
            /\ (/\ is_registered(Container, d, NoKey)
                /\ Sure(Container, DictGet(registrations, << d, NoKey >>)))
                 => /\ last'.kind = OK
                    /\ Len(last'.value.args) = 1
                    /\ ProducedBy(DictGet(registrations, << d, NoKey >>),
                                  last'.value.args[1])
      ]_vars

\* The last call was resolve(s) for a type registered as Transient to a
\* class, whose constructor it has therefore called or tried to call.
Constructing(cls) ==
    /\ last.op = "resolve"
    /\ DictHas(registrations, LastPair)
    /\ DictGet(registrations, LastPair).strategy = TYPE_TO_TYPE
    /\ DictGet(registrations, LastPair).lifetime = TRANSIENT
    /\ DictGet(registrations, LastPair).implementation_type = cls

\* C36: for a constructor parameter that declares a default value: when its
\* type is not registered unkeyed, the call does not raise
\* ServiceNotRegisteredException for that type and the object is built with
\* the default; when its type is registered unkeyed, the object is built
\* with what that registration produces, and when that registration's
\* producer raises the call does not return an object; the arguments are
\* as many as the parameters and in their order.
DefaultOnlyWhenUnregistered ==
    \A cls \in {"OptionalC", "NeedsBOptionalC"} :
        Constructing(cls) =>
            /\ last.kind = OK =>
                 /\ last.value.cls = cls
                 /\ Len(last.value.args) = Len(Parameters(cls))
            /\ \A i \in 1..Len(Parameters(cls)) :
                 LET d == Parameters(cls)[i].annotation
                     registered == is_registered(Container, d, NoKey)
                 IN  /\ (Parameters(cls)[i].has_default /\ ~registered)
                          => /\ ~(/\ last.kind = ServiceNotRegisteredException
                                  /\ last.error_type = d)
                             /\ last.kind = OK => last.value.args[i] = None
                     /\ registered
                          => /\ last.kind = OK =>
                                  ProducedBy(DictGet(registrations, << d, NoKey >>),
                                             last.value.args[i])
                             /\ (LET registration ==
                                       DictGet(registrations, << d, NoKey >>)
                                 IN  /\ registration.strategy = TYPE_TO_TYPE
                                     /\ Raises(registration.implementation_type))
                                  => last.kind # OK

\* resolve has built an object from the instance registered for its first
\* parameter and the default of its second, whose type is registered only
\* under a key.
DefaultOnlyWhenUnregisteredWitness ==
    /\ Constructing("NeedsBOptionalC")
    /\ last.kind = OK
    /\ last.value.args = << Instance(1), None >>
    /\ is_registered(Container, "C", "k1")
    /\ ~is_registered(Container, "C", NoKey)

\* C37: when the configuration function of a configure call raises, the
\* call leaves the provider unconfigured: is_configured() is false,
\* get_container raises ContainerNotConfiguredException, the lock is free,
\* so that another configure call can enter, and no get_container call
\* returns the container that the function left unfinished.
FailedConfigureUnconfigured ==
    [][\A t \in Threads :
         /\ (ConfigureEnds(t) /\ threads'[t].outcome.kind = DomainError)
              => /\ ~is_configured(provider')
                 /\ get_container(provider')
                      = ContainerNotConfiguredException
                 /\ acquirable(provider')
                 /\ \A u \in Threads :
                       provider'.calls[u].pc \notin Configures \cup Resets
         /\ (GetContainerEnds(t) /\ threads'[t].pc = "done"
                                 /\ threads'[t].method = "get_container")
              => threads'[t].got # "unfinished"
      ]_vars

\* The part of C37 about the state a failed configure call leaves.
FailedConfigureLeavesUnconfigured ==
    [][\A t \in Threads :
         (ConfigureEnds(t) /\ threads'[t].outcome.kind = DomainError)
           => /\ ~is_configured(provider')
              /\ get_container(provider') = ContainerNotConfiguredException
              /\ acquirable(provider')]_vars

\* C38: under every interleaving of configure, reset and get_container on
\* different threads, a get_container call raises
\* ContainerNotConfiguredException or returns a container whose
\* configuration function has run to completion: it returns neither None
\* nor a container whose configuration function has not returned.
GetContainerConfiguredOrRaises ==
    \A t \in Threads :
        (threads[t].pc = "done" /\ threads[t].method = "get_container")
          => \/ threads[t].outcome.kind = ContainerNotConfiguredException
             \/ threads[t].got = "configured"

\* C39: no instance in the singleton cache was built from an instance of a
\* scope that has been disposed, and no resolve call for a Singleton pair
\* returns an object built from one.
SingletonNotWiredToEndedScope ==
    /\ \A i \in 1..Len(singleton_instances) :
         \A j \in 1..Len(singleton_instances[i].value.args) :
             singleton_instances[i].value.args[j].id \notin ended_instances
    /\ Resolved(SINGLETON) =>
         \A j \in 1..Len(last.value.args) :
             last.value.args[j].id \notin ended_instances

==============================================================================
